---- MODULE Spec2Model ----
(***************************************************************************)
(* State-machine model of the CKM-ECOM web client: the checkout / payment  *)
(* hand-off of pages/Cart.tsx (Checkout), the cart provider of             *)
(* context/CartContext.tsx, the auth provider of context/AuthContext.tsx   *)
(* and the axios response interceptor of lib/api.ts.                       *)
(*                                                                         *)
(* JavaScript is single threaded: every action below is one run-to-await   *)
(* segment of a handler (from its entry or from the resolution of the      *)
(* promise it awaits, up to the next await or its return).  Network        *)
(* answers, the payment widget and the user are the environment and are    *)
(* chosen nondeterministically.                                            *)
(***************************************************************************)
EXTENDS Integers, Sequences, FiniteSets, TLC

\* ------------------------------------------------------------------ bounds
MaxFlows == 3            \* accepted handleCreateOrder invocations per page
MaxRuns == 2             \* async cart activations in flight per tab
MaxAuthChanges == 2      \* login / logout calls
MaxGuestWrites == 3      \* guest_cart writes
MaxServerQty == 3        \* quantity the backend keeps on one cart line
MaxRequests == 3         \* requests made through the API client
MaxSends == 3            \* transmissions of one request of the mobile client

\* ------------------------------------------------------------- value sets
Tabs == {1, 2}           \* browser tabs sharing one localStorage
Products == {"p1", "p2"}
Addresses == {"a1"}
NoAddress == "null"      \* selectedAddressId === null

VARIABLES
    \* ---- localStorage (shared by the tabs) and the REST backend
    guest_cart,          \* [present, text, ver] : the guest_cart entry
    serverCart,          \* server cart of the user: product -> quantity
    orders,              \* server orders: sequence of [status, address, rzp]
    access_token,        \* TRUE when the access_token entry is present
    refresh_token,       \* TRUE when the refresh_token entry is present
    mergeCalls,          \* apiService.mergeCart calls: [ver, tab, state]
    storageEvents,       \* per tab: pending 'storage' events of access_token
    \* ---- AuthProvider / CartProvider state, per tab
    isLoggedIn,
    items,
    loading,
    runs,                \* per tab: the async activations in flight
    lastCall,            \* the last cart operation called and its arguments
    \* ---- ApiService of tab 1
    requests,            \* requests made through this.client
    redirected,          \* window.location.href = '/login' was assigned
    authChanges,         \* login / logout calls made so far
    guestWrites,         \* guest_cart writes made so far
    queryCache,          \* per tab: the QueryClient cache holds data
    logoutCalls,         \* apiService.logout() calls: [tab, state]
    \* ---- mobile ApiService
    secureStorage,       \* FlutterSecureStorage: [access_token, refresh_token]
    mobileRequests,      \* requests made through _dio
    \* ---- Checkout page (tab 1)
    selectedAddressId,
    processing,
    orderInFlight,
    paymentJustCompleted,
    orderSuccess,        \* 0 = null, else the order whose popup is shown
    toast,               \* last notification shown
    flows,               \* one record per accepted handleCreateOrder run
    rejected,            \* TRUE once the in-flight guard dropped an invocation
    createOrderCalls,    \* apiService.createOrder(addressId) calls, in order
    createPaymentCalls,  \* apiService.createPayment(orderId) calls
    verifyPaymentCalls,  \* apiService.verifyPayment({razorpay_order_id}) calls
    clearCartCalls,      \* clearCart() calls: the flow that made each
    location,            \* the route tab 1 shows
    cartSettled,         \* the cartSettled ref of Checkout
    settleTimer,         \* TRUE while the 500 ms timer of Checkout is pending
    \* ---- Account page (tab 1)
    paymentInFlight,
    payingOrderId,       \* 0 = null
    ordersData,          \* useOrders(): the order statuses last fetched
    accountFlows,        \* one record per accepted handleContinuePayment run
    \* ---- mobile AuthNotifier and router
    authState,           \* [isAuthenticated, isLoading, user]
    authNotifier,        \* position of each method of AuthNotifier
    router,              \* the GoRouter: [isLoggedIn, stack]
    \* ---- mobile OtpScreen
    mounted,
    _resendSeconds,
    _canResend,
    _isLoading,
    countdownLoops,      \* Future.doWhile loops of _startResendTimer alive
    otpCalls             \* calls the screen awaits: [verifyOtp, sendOtp]

cartVars == <<guest_cart, serverCart, isLoggedIn, items>>
guardVars == <<location, cartSettled, settleTimer>>
accountVars == <<paymentInFlight, payingOrderId, ordersData, accountFlows>>
routerVars == <<authState, authNotifier, router>>
otpVars == <<mounted, _resendSeconds, _canResend, _isLoading, countdownLoops,
             otpCalls>>
screenVars == <<accountVars, routerVars, otpVars>>
sessionVars == <<access_token, refresh_token, mergeCalls, storageEvents,
                 loading, runs, lastCall, authChanges, guestWrites,
                 requests, redirected, queryCache, logoutCalls,
                 secureStorage, mobileRequests, screenVars>>
checkoutVars == <<orders, selectedAddressId, processing, orderInFlight,
                  paymentJustCompleted, orderSuccess, toast, flows, rejected,
                  createOrderCalls, createPaymentCalls, verifyPaymentCalls,
                  clearCartCalls, guardVars>>
vars == <<cartVars, sessionVars, checkoutVars>>

\* ------------------------------------------------------------ cart values
\* guest_cart: present or absent, the JSON text stored and the number of
\* the write that stored it (bookkeeping: tells one stored content from the
\* next).
NoGuestCart == [present |-> FALSE, text |-> <<>>, ver |-> 0]

\* JSON.stringify of a list of cart items: one entry per item with the
\* product id, the quantity and the product snapshot; the id property is
\* written only when the item has one (undefined properties are left out).
JSONStringify(its) ==
    [k \in 1..Len(its) |->
        IF its[k].id
        THEN <<its[k].product_id, its[k].quantity, its[k].stock, "id">>
        ELSE <<its[k].product_id, its[k].quantity, its[k].stock>>]

\* JSON.parse of a stored guest cart.
JSONParse(text) ==
    [k \in 1..Len(text) |->
        [product_id |-> text[k][1], quantity |-> text[k][2],
         stock |-> text[k][3], id |-> Len(text[k]) > 3]]

EmptyServerCart == [p \in Products |-> 0]

\* One slot of runs[t].  pc is the call the activation awaits; L is the
\* isLoggedIn value its closure captured; mergeIx is the index of its
\* mergeCart (or logout) call in the log of these calls; token tells
\* whether the request interceptor found an access_token to attach to the
\* call awaited.
IdleRun == [pc |-> "idle", L |-> FALSE, origin |-> "none", mergeIx |-> 0,
            payload |-> <<>>, product |-> "none", quantity |-> 0,
            token |-> FALSE]

\* The backend answers a call of the cart, order or session endpoints with
\* success only when the call carries a token.  (Without one the answer is
\* 401 and the refresh of the response interceptor has nothing to send:
\* the call is rejected.)
MayAnswer(run, ok) == ok => run.token

\* A request not yet made.  _retry is the flag the response interceptor
\* puts on the request config; sends and refreshes count the transmissions
\* of the request and the refresh calls made for it.
NewRequest == [pc |-> "new", _retry |-> FALSE, sends |-> 0, refreshes |-> 0,
               lastStatus |-> 0]

\* A request of the mobile client not yet made.  depth is the number of
\* onError activations awaiting an answer for it.
NewMobileRequest == [pc |-> "new", sends |-> 0, refreshes |-> 0, depth |-> 0]

NoSecureStorage == [access_token |-> FALSE, refresh_token |-> FALSE]

NoCall == [op |-> "none", tab |-> 0, product |-> "none", quantity |-> 0]

\* The countdown of the OTP screen starts at 30 seconds.
ResendDelay == 30

\* No Account page, no mobile app: the state of the parts a specification
\* leaves out.
NoAccountPage ==
    /\ paymentInFlight = FALSE
    /\ payingOrderId = 0
    /\ ordersData = <<>>
    /\ accountFlows = <<>>

\* const AuthState(): isConst tells the canonical constant from a state
\* made by copyWith (StateNotifier notifies unless the two are identical).
NoAuthState == [isAuthenticated |-> FALSE, isLoading |-> FALSE,
                error |-> FALSE, user |-> FALSE, isConst |-> TRUE]

\* The methods of AuthNotifier that are awaiting something: how many runs
\* of each are at each await.
IdleNotifier == [checkAuth |-> "done", sendOtp |-> 0, verifyOtp |-> 0,
                 writeAccess |-> 0, writeRefresh |-> 0, logout |-> 0,
                 deleteAccess |-> 0, deleteRefresh |-> 0, loadProfile |-> 0,
                 calls |-> 0]

\* Locations are their path segments: '/' is the empty path.
Home == <<>>
AuthLogin == <<"auth", "login">>
AuthOtp == <<"auth", "otp">>
Profile == <<"profile">>
Routes == {AuthLogin, AuthOtp, Home, <<"cart">>, <<"orders">>, Profile,
           <<"product", "1">>, <<"checkout">>, <<"orders", "1">>}

\* redirect returned null
NoRedirect == <<"null">>

\* state.matchedLocation.startsWith('/auth')
IsAuthRoute(loc) == Len(loc) > 0 /\ loc[1] = "auth"

\* The redirect without its second rule.
RedirectKeepsAuthRoute(loggedIn, loc) ==
    IF ~loggedIn /\ ~IsAuthRoute(loc) /\ loc # Home THEN AuthLogin
    ELSE NoRedirect

\* The redirect callback of the GoRouter; loggedIn is the value of
\* authState.isAuthenticated the provider captured.
Redirect(loggedIn, loc) ==
    IF ~loggedIn /\ ~IsAuthRoute(loc) /\ loc # Home THEN AuthLogin
    ELSE IF loggedIn /\ IsAuthRoute(loc) THEN Home
    ELSE NoRedirect

\* The location a navigation to loc ends at: the redirect is applied again
\* to the location it returned, until it returns null.
RECURSIVE Outcome(_, _)
Outcome(loggedIn, loc) ==
    LET r == Redirect(loggedIn, loc)
    IN IF r = NoRedirect THEN loc ELSE Outcome(loggedIn, r)

\* The GoRouter the provider builds for an auth state: it starts at
\* initialLocation.
NewRouter(state) ==
    [isLoggedIn |-> state.isAuthenticated,
     stack |-> <<Outcome(state.isAuthenticated, Home)>>]

\* No OtpScreen is mounted.
NoOtpScreen ==
    /\ mounted = FALSE
    /\ _resendSeconds = ResendDelay
    /\ _canResend = FALSE
    /\ _isLoading = FALSE
    /\ countdownLoops = 0
    /\ otpCalls = [verifyOtp |-> 0, sendOtp |-> 0]

NoMobileApp ==
    /\ authState = NoAuthState
    /\ authNotifier = IdleNotifier
    /\ router = NewRouter(NoAuthState)
    /\ NoOtpScreen

\* Tab 1 shows another page than Checkout.
NoCheckoutPage ==
    /\ location = "/"
    /\ cartSettled = FALSE
    /\ settleTimer = FALSE

\* ============================================================== Checkout
\* The page lives in tab 1.
CheckoutTab == 1

NewFlow(addr) ==
    [pc |-> "createOrder", addressId |-> addr, orderId |-> 0, rzp |-> 0,
     widgetOrderId |-> 0, failed |-> FALSE, verified |-> FALSE,
     outcome |-> "none",
     startOrders |-> Len(createOrderCalls), endOrders |-> -1,
     startPayments |-> Len(createPaymentCalls), endPayments |-> -1]

\* History bookkeeping: the first terminal outcome of a flow and the number
\* of creation calls issued up to it.
Terminal(f, what) ==
    IF f.outcome = "none"
    THEN [f EXCEPT !.outcome = what,
                   !.endOrders = Len(createOrderCalls),
                   !.endPayments = Len(createPaymentCalls)]
    ELSE f

\* The payment widget is a modal overlay, and so is the success popup:
\* while one is shown the page below takes no clicks.
WidgetOpen == \E i \in 1..Len(flows) : flows[i].pc = "widget"

\* The page renders its content only for a logged-in user whose cart has
\* loaded (a spinner otherwise).
PageInteractive ==
    /\ location = "/checkout"
    /\ isLoggedIn[CheckoutTab]
    /\ ~loading[CheckoutTab]
    /\ ~WidgetOpen
    /\ orderSuccess = 0

\* itemCount of the cart provider: the sum of the quantities.
RECURSIVE ItemCount(_)
ItemCount(its) ==
    IF its = <<>> THEN 0 ELSE Head(its).quantity + ItemCount(Tail(its))

\* The route the effects of Checkout navigate to after a render in which
\* the values they depend on have changed: the auth guard goes to /login,
\* the empty-cart guard, declared after it, to /cart.  justCompleted is the
\* value the guard reads from the paymentJustCompleted ref.
GuardTarget(justCompleted) ==
    LET T == CheckoutTab
        authChanged == isLoggedIn'[T] # isLoggedIn[T]
        cartChanged == \/ loading'[T] # loading[T]
                       \/ ItemCount(items'[T]) # ItemCount(items[T])
    IN  IF /\ cartChanged
           /\ cartSettled
           /\ ~loading'[T]
           /\ ItemCount(items'[T]) = 0
           /\ ~justCompleted
        THEN "/cart"
        ELSE IF authChanged /\ ~isLoggedIn'[T] THEN "/login"
        ELSE location

\* The cartSettled effect after such a render: the pending timer is
\* cleared and a new one is set when the cart is loaded for a logged-in
\* user; leaving the page clears it.
TimerAfterRender ==
    LET T == CheckoutTab
    IN  IF location' # "/checkout" THEN FALSE
        ELSE IF isLoggedIn'[T] # isLoggedIn[T] \/ loading'[T] # loading[T]
        THEN ~loading'[T] /\ isLoggedIn'[T]
        ELSE settleTimer

\* Effects whose empty-cart guard does not look at paymentJustCompleted.
CheckoutEffectsIgnorePayment ==
    IF location # "/checkout"
    THEN UNCHANGED guardVars
    ELSE /\ location' = GuardTarget(FALSE)
         /\ settleTimer' = TimerAfterRender
         /\ UNCHANGED cartSettled

\* The effects of Checkout that follow a change of the cart or of the auth
\* state of its tab.
CheckoutEffects ==
    IF location # "/checkout"
    THEN UNCHANGED guardVars
    ELSE /\ location' = GuardTarget(paymentJustCompleted')
         /\ settleTimer' = TimerAfterRender
         /\ UNCHANGED cartSettled

\* The 500 ms timer of the cartSettled effect fires.
CartSettledTimer ==
    /\ location = "/checkout"
    /\ settleTimer
    /\ cartSettled' = TRUE
    /\ settleTimer' = FALSE
    /\ UNCHANGED <<location, sessionVars, cartVars, orders, selectedAddressId,
                   processing, orderInFlight, paymentJustCompleted,
                   orderSuccess, toast, flows, rejected, createOrderCalls,
                   createPaymentCalls, verifyPaymentCalls, clearCartCalls>>

SelectAddress(a) ==
    /\ PageInteractive
    /\ selectedAddressId # a
    /\ selectedAddressId' = a
    /\ UNCHANGED <<sessionVars, guardVars, cartVars, orders, processing, orderInFlight,
                   paymentJustCompleted, orderSuccess, toast, flows, rejected,
                   createOrderCalls, createPaymentCalls, verifyPaymentCalls,
                   clearCartCalls>>

\* The guard of handleCreateOrder.
Guarded == orderInFlight \/ processing

\* handleCreateOrder without the check of selectedAddressId.
HandleCreateOrderNoAddressCheck ==
    /\ PageInteractive
    /\ IF Guarded
       THEN /\ rejected' = TRUE
            /\ UNCHANGED <<orderInFlight, processing, flows, toast,
                           createOrderCalls>>
       ELSE /\ Len(flows) < MaxFlows
            /\ orderInFlight' = TRUE
            /\ processing' = TRUE
            /\ createOrderCalls' = Append(createOrderCalls, selectedAddressId)
            /\ flows' = Append(flows, NewFlow(selectedAddressId))
            /\ UNCHANGED <<toast, rejected>>
    /\ UNCHANGED <<sessionVars, guardVars, cartVars, orders, selectedAddressId, paymentJustCompleted,
                   orderSuccess, createPaymentCalls, verifyPaymentCalls,
                   clearCartCalls>>

\* handleCreateOrder up to its first await.
HandleCreateOrder ==
    /\ PageInteractive
    /\ IF selectedAddressId = NoAddress
       THEN /\ toast # "select_address"
            /\ toast' = "select_address"
            /\ UNCHANGED <<orderInFlight, processing, flows, rejected,
                           createOrderCalls>>
       ELSE IF Guarded
       THEN /\ rejected' = TRUE
            /\ UNCHANGED <<orderInFlight, processing, flows, toast,
                           createOrderCalls>>
       ELSE /\ Len(flows) < MaxFlows
            /\ orderInFlight' = TRUE
            /\ processing' = TRUE
            /\ createOrderCalls' = Append(createOrderCalls, selectedAddressId)
            /\ flows' = Append(flows, NewFlow(selectedAddressId))
            /\ UNCHANGED <<toast, rejected>>
    /\ UNCHANGED <<sessionVars, guardVars, cartVars, orders, selectedAddressId, paymentJustCompleted,
                   orderSuccess, createPaymentCalls, verifyPaymentCalls,
                   clearCartCalls>>

\* The catch block without the release of the latch.
CatchOrderErrorKeepsLatch(i, what) ==
    /\ toast' = "order_failed"
    /\ processing' = FALSE
    /\ orderInFlight' = orderInFlight
    /\ flows' = [flows EXCEPT ![i] = Terminal([@ EXCEPT !.pc = "done"], what)]

\* catch (error) of handleCreateOrder.
CatchOrderError(i, what) ==
    /\ toast' = "order_failed"
    /\ processing' = FALSE
    /\ orderInFlight' = FALSE
    /\ flows' = [flows EXCEPT ![i] = Terminal([@ EXCEPT !.pc = "done"], what)]

\* createOrder answered: on success createPayment(orderRes.data.id) is
\* called.
CreateOrderReturns(i, ok) ==
    /\ flows[i].pc = "createOrder"
    /\ IF ok
       THEN /\ orders' = Append(orders, [status |-> "pending",
                                         address |-> flows[i].addressId,
                                         rzp |-> 0])
            /\ createPaymentCalls' = Append(createPaymentCalls, Len(orders'))
            /\ flows' = [flows EXCEPT ![i].pc = "createPayment",
                                      ![i].orderId = Len(orders')]
            /\ UNCHANGED <<toast, processing, orderInFlight>>
       ELSE /\ CatchOrderError(i, "order_error")
            /\ UNCHANGED <<orders, createPaymentCalls>>
    /\ UNCHANGED <<sessionVars, guardVars, cartVars, selectedAddressId, paymentJustCompleted,
                   orderSuccess, rejected, createOrderCalls,
                   verifyPaymentCalls, clearCartCalls>>

\* The razorpay_order_id the backend hands out for an order.
RazorpayOrderId(orderId) == 10 + orderId

\* createPayment answered: on success the gateway script is loaded.
CreatePaymentReturns(i, ok) ==
    /\ flows[i].pc = "createPayment"
    /\ IF ok
       THEN /\ orders' = [orders EXCEPT ![flows[i].orderId].rzp =
                                            RazorpayOrderId(flows[i].orderId)]
            /\ flows' = [flows EXCEPT ![i].pc = "loadScript",
                                      ![i].rzp = orders'[flows[i].orderId].rzp]
            /\ UNCHANGED <<toast, processing, orderInFlight>>
       ELSE /\ CatchOrderError(i, "payment_error")
            /\ UNCHANGED orders
    /\ UNCHANGED <<sessionVars, guardVars, cartVars, selectedAddressId, paymentJustCompleted,
                   orderSuccess, rejected, createOrderCalls,
                   createPaymentCalls, verifyPaymentCalls, clearCartCalls>>

\* loadRazorpayScript resolved: the widget is built and opened, or the run
\* gives up.
LoadScriptReturns(i, loaded) ==
    /\ flows[i].pc = "loadScript"
    /\ IF loaded
       THEN /\ flows' = [flows EXCEPT ![i].pc = "widget",
                                      ![i].widgetOrderId = flows[i].rzp]
            /\ UNCHANGED <<toast, processing, orderInFlight>>
       ELSE /\ toast' = "gateway_load_failed"
            /\ processing' = FALSE
            /\ orderInFlight' = FALSE
            /\ flows' = [flows EXCEPT ![i] =
                            Terminal([@ EXCEPT !.pc = "done"], "script_error")]
    /\ UNCHANGED <<sessionVars, guardVars, cartVars, orders, selectedAddressId, paymentJustCompleted,
                   orderSuccess, rejected, createOrderCalls,
                   createPaymentCalls, verifyPaymentCalls, clearCartCalls>>

\* rzp.on('payment.failed'): the widget stays open and lets the customer
\* retry or close it; the event may come again.
PaymentFailed(i) ==
    /\ flows[i].pc = "widget"
    /\ toast' = "payment_failed"
    /\ processing' = FALSE
    /\ orderInFlight' = FALSE
    /\ flows' = [flows EXCEPT ![i] =
                    Terminal([@ EXCEPT !.failed = TRUE], "payment_failed")]
    /\ UNCHANGED <<sessionVars, guardVars, cartVars, orders, selectedAddressId, paymentJustCompleted,
                   orderSuccess, rejected, createOrderCalls,
                   createPaymentCalls, verifyPaymentCalls, clearCartCalls>>

\* ondismiss that also empties the cart shown.
DismissClearsCart(i) ==
    /\ flows[i].pc = "widget"
    /\ processing' = FALSE
    /\ orderInFlight' = FALSE
    /\ toast' = "payment_cancelled"
    /\ items' = [items EXCEPT ![CheckoutTab] = <<>>]
    /\ flows' = [flows EXCEPT ![i] =
                    Terminal([@ EXCEPT !.pc = "done"], "dismissed")]
    /\ UNCHANGED <<sessionVars, guardVars, guest_cart, serverCart, isLoggedIn, orders,
                   selectedAddressId, paymentJustCompleted,
                   orderSuccess, rejected, createOrderCalls,
                   createPaymentCalls, verifyPaymentCalls, clearCartCalls>>

\* modal.ondismiss
Dismiss(i) ==
    /\ flows[i].pc = "widget"
    /\ processing' = FALSE
    /\ orderInFlight' = FALSE
    /\ toast' = "payment_cancelled"
    /\ flows' = [flows EXCEPT ![i] =
                    Terminal([@ EXCEPT !.pc = "done"], "dismissed")]
    /\ UNCHANGED <<sessionVars, guardVars, cartVars, orders, selectedAddressId, paymentJustCompleted,
                   orderSuccess, rejected, createOrderCalls,
                   createPaymentCalls, verifyPaymentCalls, clearCartCalls>>

\* A handler that clears the cart without waiting for the verification.
PaymentSucceededSkipsVerify(i) ==
    /\ flows[i].pc = "widget"
    /\ clearCartCalls' = Append(clearCartCalls, i)
    /\ flows' = [flows EXCEPT ![i].pc = "clearCart"]
    /\ UNCHANGED <<sessionVars, guardVars, cartVars, orders, selectedAddressId, processing,
                   orderInFlight, paymentJustCompleted, orderSuccess, toast,
                   rejected, createOrderCalls, createPaymentCalls,
                   verifyPaymentCalls>>

\* options.handler up to its await: the widget reports a paid order and
\* closes; verifyPayment is called with the identifiers of the widget.
PaymentSucceeded(i) ==
    /\ flows[i].pc = "widget"
    /\ verifyPaymentCalls' = Append(verifyPaymentCalls, flows[i].widgetOrderId)
    /\ flows' = [flows EXCEPT ![i].pc = "verify"]
    /\ UNCHANGED <<sessionVars, guardVars, cartVars, orders, selectedAddressId, processing,
                   orderInFlight, paymentJustCompleted, orderSuccess, toast,
                   rejected, createOrderCalls, createPaymentCalls,
                   clearCartCalls>>

\* finally of options.handler
HandlerFinally(i, what) ==
    /\ processing' = FALSE
    /\ orderInFlight' = FALSE
    /\ flows' = [flows EXCEPT ![i] = Terminal([@ EXCEPT !.pc = "done"], what)]

\* CartContext.clearCart after its server call (or without one for a guest):
\* the finally block.
ClearCartFinally ==
    /\ items' = [items EXCEPT ![CheckoutTab] = <<>>]
    /\ guest_cart' = NoGuestCart

\* After clearCart() has returned: setOrderSuccess and the handler's finally.
AfterClearCart(i) ==
    /\ orderSuccess' = flows[i].orderId
    /\ HandlerFinally(i, "verified")

\* A handler whose catch block swallows the failure silently.
VerifyPaymentReturnsSilentFailure(i, ok) ==
    /\ flows[i].pc = "verify"
    /\ ~ok
    /\ HandlerFinally(i, "verify_failed")
    /\ UNCHANGED <<sessionVars, guardVars, cartVars, orders, selectedAddressId, paymentJustCompleted,
                   orderSuccess, toast, rejected, createOrderCalls,
                   createPaymentCalls, verifyPaymentCalls, clearCartCalls>>

\* verifyPayment answered.
VerifyPaymentReturns(i, ok) ==
    /\ flows[i].pc = "verify"
    /\ IF ok
       THEN /\ orders' = [j \in 1..Len(orders) |->
                            IF orders[j].rzp = flows[i].widgetOrderId
                            THEN [orders[j] EXCEPT !.status = "confirmed"]
                            ELSE orders[j]]
            /\ paymentJustCompleted' = TRUE
            /\ clearCartCalls' = Append(clearCartCalls, i)
            /\ IF isLoggedIn[CheckoutTab]
               THEN /\ flows' = [flows EXCEPT ![i].pc = "clearCart",
                                              ![i].verified = TRUE]
                    /\ UNCHANGED <<items, guest_cart, orderSuccess, toast,
                                   processing, orderInFlight>>
               ELSE /\ ClearCartFinally
                    /\ orderSuccess' = flows[i].orderId
                    /\ processing' = FALSE
                    /\ orderInFlight' = FALSE
                    /\ flows' = [flows EXCEPT ![i] = Terminal(
                                    [@ EXCEPT !.pc = "done",
                                              !.verified = TRUE], "verified")]
                    /\ UNCHANGED toast
       ELSE /\ toast' = "verify_failed"
            /\ HandlerFinally(i, "verify_failed")
            /\ UNCHANGED <<orders, paymentJustCompleted, clearCartCalls,
                           items, guest_cart, orderSuccess>>
    /\ UNCHANGED <<sessionVars, serverCart, isLoggedIn, selectedAddressId,
                   rejected,
                   createOrderCalls, createPaymentCalls, verifyPaymentCalls>>
    /\ CheckoutEffects

\* apiService.clearCart() answered inside CartContext.clearCart.
ClearCartReturns(i, ok) ==
    /\ flows[i].pc = "clearCart"
    /\ serverCart' = IF ok THEN EmptyServerCart ELSE serverCart
    /\ ClearCartFinally
    /\ AfterClearCart(i)
    /\ UNCHANGED <<sessionVars, isLoggedIn, orders, selectedAddressId,
                   paymentJustCompleted, toast, rejected, createOrderCalls,
                   createPaymentCalls, verifyPaymentCalls, clearCartCalls>>
    /\ CheckoutEffects

CheckoutStep ==
    \/ \E a \in Addresses : SelectAddress(a)
    \/ HandleCreateOrder
    \/ \E i \in 1..Len(flows), ok \in BOOLEAN :
          \/ CreateOrderReturns(i, ok)
          \/ CreatePaymentReturns(i, ok)
          \/ LoadScriptReturns(i, ok)
          \/ VerifyPaymentReturns(i, ok)
          \/ ClearCartReturns(i, ok)
    \/ \E i \in 1..Len(flows) :
          \/ PaymentFailed(i)
          \/ Dismiss(i)
          \/ PaymentSucceeded(i)

\* The checkout page of a logged-in user with one product in the cart.
CheckoutItems == <<[product_id |-> "p1", quantity |-> 2, stock |-> 12,
                    id |-> TRUE]>>

InitCheckout ==
    /\ access_token = TRUE
    /\ refresh_token = TRUE
    /\ mergeCalls = <<>>
    /\ storageEvents = [t \in Tabs |-> <<>>]
    /\ loading = [t \in Tabs |-> FALSE]
    /\ runs = [t \in Tabs |-> [k \in 1..MaxRuns |-> IdleRun]]
    /\ lastCall = NoCall
    /\ authChanges = 0
    /\ guestWrites = 0
    /\ requests = [r \in 1..MaxRequests |-> NewRequest]
    /\ redirected = FALSE
    /\ queryCache = [t \in Tabs |-> FALSE]
    /\ logoutCalls = <<>>
    /\ secureStorage = NoSecureStorage
    /\ mobileRequests = [r \in 1..MaxRequests |-> NewMobileRequest]
    /\ NoAccountPage
    /\ NoMobileApp
    /\ location = "/checkout"
    /\ cartSettled = FALSE
    /\ settleTimer = TRUE
    /\ guest_cart = NoGuestCart
    /\ serverCart = [EmptyServerCart EXCEPT !["p1"] = 2]
    /\ isLoggedIn = [t \in Tabs |-> TRUE]
    /\ items = [t \in Tabs |-> CheckoutItems]
    /\ orders = <<>>
    /\ selectedAddressId = NoAddress
    /\ processing = FALSE
    /\ orderInFlight = FALSE
    /\ paymentJustCompleted = FALSE
    /\ orderSuccess = 0
    /\ toast = "none"
    /\ flows = <<>>
    /\ rejected = FALSE
    /\ createOrderCalls = <<>>
    /\ createPaymentCalls = <<>>
    /\ verifyPaymentCalls = <<>>
    /\ clearCartCalls = <<>>

SpecCheckout == InitCheckout /\ [][CheckoutStep]_vars

\* ------------------------------------------------- properties of Checkout
FlowIds == 1..Len(flows)

\* Creation calls issued from the acceptance of flow i up to its first
\* terminal outcome (up to now while it has none).
OrdersInWindow(i) ==
    (IF flows[i].endOrders = -1 THEN Len(createOrderCalls)
                                ELSE flows[i].endOrders) - flows[i].startOrders

PaymentsInWindow(i) ==
    (IF flows[i].endPayments = -1 THEN Len(createPaymentCalls)
                                  ELSE flows[i].endPayments)
        - flows[i].startPayments

\* C1: the handleCreateOrder invocations issued before an accepted one has
\* reached a terminal outcome produce exactly one createOrder call and, once
\* that call has succeeded, exactly one createPayment call.
C1_OneOrderOnePaymentPerBurst ==
    \A i \in FlowIds :
        /\ OrdersInWindow(i) = 1
        /\ PaymentsInWindow(i) <= 1
        /\ (flows[i].outcome \notin {"none", "order_error"}
               => PaymentsInWindow(i) = 1)

\* C6: clearCart is called, the cart is emptied and the order-success state
\* is set only by a flow whose verifyPayment has returned successfully.
C6_ClearOnlyAfterVerify ==
    /\ \A k \in 1..Len(clearCartCalls) : flows[clearCartCalls[k]].verified
    /\ \A i \in FlowIds : flows[i].pc = "clearCart" => flows[i].verified
    /\ (items[CheckoutTab] = <<>> \/ orderSuccess # 0 \/ paymentJustCompleted)
          => \E i \in FlowIds :
                /\ flows[i].verified
                /\ flows[i].widgetOrderId \in
                      {verifyPaymentCalls[k] : k \in 1..Len(verifyPaymentCalls)}
    /\ orderSuccess # 0
          => \E i \in FlowIds : flows[i].verified
                                /\ flows[i].orderId = orderSuccess

C6_Witness ==
    /\ orderSuccess # 0
    /\ items[CheckoutTab] = <<>>
    /\ Len(clearCartCalls) > 0

\* A step in which the widget of flow i is dismissed, or reports
\* payment.failed.
WidgetGaveUp(i) ==
    /\ i \in FlowIds
    /\ flows[i].pc = "widget"
    /\ \/ flows'[i].pc = "done"
       \/ flows'[i].failed /\ ~flows[i].failed
       \/ toast' = "payment_failed" /\ toast # toast'

\* C7: a dismissal or a payment.failed report issues no verifyPayment, no
\* clearCart and no order-changing call; the order stays pending and the
\* cart (in memory and on the server) stays what it was.  As long as no
\* payment has been verified the cart is the non-empty cart the page
\* started with and every order is pending.
C7_DismissLeavesOrderAndCart ==
    /\ [][\A i \in 1..MaxFlows :
             WidgetGaveUp(i) =>
                /\ UNCHANGED <<verifyPaymentCalls, clearCartCalls,
                               createOrderCalls, createPaymentCalls, orders,
                               items, serverCart, guest_cart, orderSuccess>>
                /\ orders'[flows[i].orderId].status = "pending"]_vars
    /\ []((\A i \in FlowIds : ~flows[i].verified) =>
             /\ items[CheckoutTab] = CheckoutItems
             /\ items[CheckoutTab] # <<>>
             /\ serverCart # EmptyServerCart
             /\ \A o \in 1..Len(orders) : orders[o].status = "pending")

C7_Witness ==
    \E i \in FlowIds :
        /\ flows[i].failed
        /\ flows[i].outcome = "payment_failed"
        /\ flows[i].pc = "done"
        /\ orders[flows[i].orderId].status = "pending"
        /\ items[CheckoutTab] # <<>>
        /\ toast = "payment_cancelled"

\* A step in which flow i reaches a terminal outcome: error of createOrder
\* or createPayment, script load failure, payment.failed, dismissal,
\* verification success or failure.
ReachesOutcome(i) ==
    /\ i \in FlowIds
    /\ flows[i].pc # "done"
    /\ \/ flows'[i].pc = "done"
       \/ flows'[i].failed /\ ~flows[i].failed
       \/ toast' = "payment_failed" /\ toast # toast'

\* C8: after every terminal outcome the latch and the processing flag are
\* both false, so that the guard of handleCreateOrder accepts a submission.
C8_LatchReleased ==
    [][\A i \in 1..MaxFlows :
          ReachesOutcome(i) =>
              ~orderInFlight' /\ ~processing' /\ ~Guarded']_vars

C8_Witness ==
    /\ Len(flows) >= 2
    /\ flows[1].outcome = "script_error"
    /\ flows[2].outcome = "verify_failed"
    /\ ~orderInFlight /\ ~processing

\* C9: createOrder is called with a selected address id only; createPayment
\* only with the id a successful createOrder returned; the widget is opened
\* only with the identifiers a successful createPayment returned.
C9_TwoPhaseOrder ==
    /\ \A k \in 1..Len(createOrderCalls) : createOrderCalls[k] \in Addresses
    /\ \A k \in 1..Len(createPaymentCalls) :
          /\ createPaymentCalls[k] \in 1..Len(orders)
          /\ \E i \in FlowIds : flows[i].orderId = createPaymentCalls[k]
    /\ \A i \in FlowIds :
          /\ flows[i].pc \in {"createPayment", "loadScript", "widget",
                              "verify", "clearCart"}
                => flows[i].orderId \in 1..Len(orders)
          /\ flows[i].pc \in {"loadScript", "widget", "verify", "clearCart"}
                => /\ flows[i].rzp # 0
                   /\ flows[i].rzp = orders[flows[i].orderId].rzp
          /\ flows[i].pc \in {"widget", "verify", "clearCart"}
                => flows[i].widgetOrderId = orders[flows[i].orderId].rzp
          /\ flows[i].widgetOrderId # 0
                => flows[i].widgetOrderId = orders[flows[i].orderId].rzp

C9_Witness ==
    \E i \in FlowIds :
        /\ flows[i].pc = "widget"
        /\ flows[i].widgetOrderId = RazorpayOrderId(flows[i].orderId)
        /\ createOrderCalls[i] = "a1"

\* A step in which the verifyPayment call of flow i fails.
VerifyFails(i) ==
    /\ i \in FlowIds
    /\ flows[i].pc = "verify"
    /\ flows'[i].pc # "verify"
    /\ ~flows'[i].verified

\* C10: a failed verifyPayment ends the handler normally: the cart is not
\* cleared, the success state is not set, the contact-support notification
\* is shown, the latch and the processing flag are released.
C10_VerifyFailureIsContained ==
    [][\A i \in 1..MaxFlows :
          VerifyFails(i) =>
              /\ flows'[i].pc = "done"
              /\ UNCHANGED <<items, serverCart, guest_cart, clearCartCalls,
                             orderSuccess, paymentJustCompleted>>
              /\ toast' = "verify_failed"
              /\ ~orderInFlight' /\ ~processing']_vars

C10_Witness ==
    \E i \in FlowIds :
        /\ flows[i].outcome = "verify_failed"
        /\ flows[i].pc = "done"
        /\ toast = "verify_failed"
        /\ items[CheckoutTab] # <<>>
        /\ orderSuccess = 0
        /\ ~orderInFlight

\* C22: once the payment of an order was dismissed or has failed, and until
\* a payment is verified, the page calls createOrder no more: the cart of
\* the page session gets one order.
C22_OneOrderPerCart ==
    \A i \in FlowIds :
        (/\ flows[i].outcome \in {"dismissed", "payment_failed"}
         /\ \A j \in FlowIds : ~flows[j].verified)
            => Len(createOrderCalls) = flows[i].endOrders

\* ========================================================== CartProvider
\* The state of the pages and of the clients the cart provider does not
\* touch.
providerFrame == <<orders, selectedAddressId, processing, orderInFlight,
                   paymentJustCompleted, orderSuccess, flows, rejected,
                   createOrderCalls, createPaymentCalls, verifyPaymentCalls,
                   clearCartCalls, requests, redirected, queryCache,
                   logoutCalls, secureStorage, mobileRequests, screenVars>>
pageVars == <<providerFrame, guardVars>>

MinOf(a, b) == IF a < b THEN a ELSE b

\* The hard cap on a cart line (Math.min(..., 10) in addToCart).
QuantityCap == 10


\* Stock of the catalogue products as the backend reports it.
CatalogueStock(p) == IF p = "p1" THEN 12 ELSE 3

\* items.findIndex(i => i.product_id === productId): 0 when there is none.
FindIndex(its, p) ==
    IF \E k \in 1..Len(its) : its[k].product_id = p
    THEN CHOOSE k \in 1..Len(its) :
            /\ its[k].product_id = p
            /\ \A j \in 1..(k - 1) : its[j].product_id # p
    ELSE 0

\* items.filter(i => i.product_id !== productId)
RECURSIVE FilterOut(_, _)
FilterOut(its, p) ==
    IF its = <<>> THEN <<>>
    ELSE IF Head(its).product_id = p THEN FilterOut(Tail(its), p)
    ELSE <<Head(its)>> \o FilterOut(Tail(its), p)

\* guestItems.map(item => ({product_id, quantity}))
MergePayload(its) ==
    [k \in 1..Len(its) |->
        [product_id |-> its[k].product_id, quantity |-> its[k].quantity]]

\* Quantity a payload carries for product p.
RECURSIVE PayloadQuantity(_, _)
PayloadQuantity(payload, p) ==
    IF payload = <<>> THEN 0
    ELSE (IF Head(payload).product_id = p THEN Head(payload).quantity ELSE 0)
         + PayloadQuantity(Tail(payload), p)

\* POST /api/v1/cart/merge: the guest quantities are added to the lines of
\* the server cart.
ServerMerge(cart, payload) ==
    [p \in Products |->
        MinOf(MaxServerQty,
              IF cart[p] + PayloadQuantity(payload, p) < 0 THEN 0
              ELSE cart[p] + PayloadQuantity(payload, p))]

\* GET /api/v1/cart: one line per product in the cart.
ServerItems(cart) ==
    LET line(p) == [product_id |-> p, quantity |-> cart[p],
                    stock |-> CatalogueStock(p), id |-> TRUE]
    IN  (IF cart["p1"] > 0 THEN <<line("p1")>> ELSE <<>>)
        \o (IF cart["p2"] > 0 THEN <<line("p2")>> ELSE <<>>)

\* localStorage.setItem('guest_cart', JSON.stringify(its))
StoredGuestCart(its) ==
    [present |-> TRUE, text |-> JSONStringify(its), ver |-> guestWrites + 1]

FreeSlots(t) == {k \in 1..MaxRuns : runs[t][k].pc = "idle"}

FirstFreeSlot(t) == CHOOSE k \in FreeSlots(t) : \A j \in FreeSlots(t) : k <= j

\* refreshCart up to its first await, run in slot k of tab t by a closure
\* that captured isLoggedIn = L.  Sets loading, runs, items, guest_cart and
\* mergeCalls; the call it makes carries the token local storage holds at
\* the end of the step (login stores the token before the effect runs).
RefreshCartBegins(t, k, L, origin) ==
    LET run == [IdleRun EXCEPT !.L = L, !.origin = origin,
                               !.token = access_token']
    IN
    IF L
    THEN /\ loading' = [loading EXCEPT ![t] = TRUE]
         /\ UNCHANGED items
         /\ IF guest_cart.present /\ Len(JSONParse(guest_cart.text)) > 0
            THEN /\ mergeCalls' = Append(mergeCalls,
                                         [ver |-> guest_cart.ver, tab |-> t,
                                          state |-> "pending"])
                 /\ runs' = [runs EXCEPT ![t][k] =
                               [run EXCEPT !.pc = "merge",
                                           !.mergeIx = Len(mergeCalls) + 1,
                                           !.payload =
                                              MergePayload(
                                                JSONParse(guest_cart.text))]]
                 /\ UNCHANGED guest_cart
            ELSE /\ guest_cart' = NoGuestCart
                 /\ runs' = [runs EXCEPT ![t][k] = [run EXCEPT !.pc = "getCart"]]
                 /\ UNCHANGED mergeCalls
    ELSE /\ loading' = [loading EXCEPT ![t] = FALSE]
         /\ items' = [items EXCEPT ![t] =
                        IF guest_cart.present
                        THEN JSONParse(guest_cart.text) ELSE <<>>]
         /\ runs' = [runs EXCEPT ![t][k] = IdleRun]
         /\ UNCHANGED <<guest_cart, mergeCalls>>

\* useEffect(() => { refreshCart(); }, [isLoggedIn]) after isLoggedIn of tab
\* t became v: a new run when the value changed.
AuthEffect(t, v) ==
    IF isLoggedIn[t] # v
    THEN /\ FreeSlots(t) # {}
         /\ RefreshCartBegins(t, FirstFreeSlot(t), v, "auth")
    ELSE UNCHANGED <<loading, runs, items, guest_cart, mergeCalls>>

\* Every other tab gets a 'storage' event for access_token.
Broadcast(t, v) ==
    [u \in Tabs |-> IF u = t THEN storageEvents[u]
                    ELSE Append(storageEvents[u], v)]

\* AuthContext.login
Login(t) ==
    /\ authChanges < MaxAuthChanges
    /\ authChanges' = authChanges + 1
    /\ access_token' = TRUE
    /\ refresh_token' = TRUE
    /\ storageEvents' = Broadcast(t, TRUE)
    /\ isLoggedIn' = [isLoggedIn EXCEPT ![t] = TRUE]
    /\ AuthEffect(t, TRUE)
    /\ UNCHANGED <<serverCart, lastCall, guestWrites, toast, pageVars>>

\* handleStorage
HandleStorage(t) ==
    /\ storageEvents[t] # <<>>
    /\ storageEvents' = [storageEvents EXCEPT ![t] = Tail(@)]
    /\ isLoggedIn' = [isLoggedIn EXCEPT ![t] = Head(storageEvents[t])]
    /\ UNCHANGED <<access_token, refresh_token>>
    /\ AuthEffect(t, Head(storageEvents[t]))
    /\ UNCHANGED <<serverCart, lastCall, authChanges, guestWrites, toast,
                   pageVars>>

\* mergeCart answered: the finally block removes guest_cart, then getCart
\* is called.
MergeCartReturns(t, k, ok) ==
    /\ runs[t][k].pc = "merge"
    /\ MayAnswer(runs[t][k], ok)
    /\ serverCart' = IF ok THEN ServerMerge(serverCart, runs[t][k].payload)
                     ELSE serverCart
    /\ mergeCalls' = [mergeCalls EXCEPT ![runs[t][k].mergeIx].state =
                         IF ok THEN "ok" ELSE "failed"]
    /\ guest_cart' = NoGuestCart
    /\ runs' = [runs EXCEPT ![t][k].pc = "getCart",
                            ![t][k].token = access_token]
    /\ UNCHANGED <<access_token, refresh_token, storageEvents, isLoggedIn,
                   items, loading, lastCall, authChanges, guestWrites, toast,
                   pageVars>>

\* The notification a cart operation shows once its refreshCart is over.
DoneToast(origin) ==
    IF origin = "addToCart" THEN "added"
    ELSE IF origin = "removeFromCart" THEN "removed"
    ELSE toast

\* getCart answered: the end of a refreshCart run.
GetCartReturns(t, k, ok) ==
    /\ runs[t][k].pc = "getCart"
    /\ MayAnswer(runs[t][k], ok)
    /\ items' = IF ok THEN [items EXCEPT ![t] = ServerItems(serverCart)]
                ELSE items
    /\ loading' = [loading EXCEPT ![t] = FALSE]
    /\ toast' = DoneToast(runs[t][k].origin)
    /\ runs' = [runs EXCEPT ![t][k] = IdleRun]
    /\ UNCHANGED <<access_token, refresh_token, storageEvents, isLoggedIn,
                   guest_cart, serverCart, mergeCalls, lastCall, authChanges,
                   guestWrites, providerFrame>>
    /\ IF t = CheckoutTab THEN CheckoutEffects ELSE UNCHANGED guardVars

\* A cart operation of a logged-in tab: its server call is in flight in
\* slot k.
OpBegins(t, k, op, p, q) ==
    runs' = [runs EXCEPT ![t][k] =
                [IdleRun EXCEPT !.pc = op, !.L = TRUE, !.origin = op,
                                !.product = p, !.quantity = q,
                                !.token = access_token]]

\* A guest branch of addToCart that adds a line without looking for the
\* product among the items.
GuestAddAlwaysAppends(its, p, q, stock) ==
    Append(its, [product_id |-> p, quantity |-> MinOf(q, QuantityCap),
                 stock |-> stock, id |-> FALSE])

\* The guest branch of addToCart on the items its closure holds.
GuestAdd(its, p, q, stock) ==
    LET ix == FindIndex(its, p)
    IN  IF ix > 0
        THEN [its EXCEPT ![ix].quantity = MinOf(its[ix].quantity + q,
                                                QuantityCap)]
        ELSE Append(its, [product_id |-> p,
                          quantity |-> MinOf(q, QuantityCap),
                          stock |-> stock, id |-> FALSE])

\* addToCart(product, quantity) with product = {id: p, stock, is_active}.
AddToCart(t, p, q, stock, active) ==
    /\ lastCall' = [op |-> "addToCart", tab |-> t, product |-> p,
                    quantity |-> q]
    /\ IF ~active \/ stock < q
       THEN /\ toast' = "not_available"
            /\ UNCHANGED <<items, guest_cart, guestWrites, runs>>
       ELSE IF isLoggedIn[t]
       THEN /\ FreeSlots(t) # {}
            /\ OpBegins(t, FirstFreeSlot(t), "addToCart", p, q)
            /\ UNCHANGED <<items, guest_cart, guestWrites, toast>>
       ELSE IF /\ FindIndex(items[t], p) > 0
               /\ items[t][FindIndex(items[t], p)].quantity + q > stock
       THEN /\ toast' = "only_n_available"
            /\ UNCHANGED <<items, guest_cart, guestWrites, runs>>
       ELSE /\ guestWrites < MaxGuestWrites
            /\ items' = [items EXCEPT ![t] = GuestAdd(items[t], p, q, stock)]
            /\ guest_cart' = StoredGuestCart(items'[t])
            /\ guestWrites' = guestWrites + 1
            /\ toast' = "added"
            /\ UNCHANGED runs
    /\ UNCHANGED <<access_token, refresh_token, mergeCalls, storageEvents,
                   isLoggedIn, serverCart, loading, authChanges, pageVars>>

\* An updateQuantity whose guest branch leaves local storage alone.
UpdateQuantityNoStore(t, p, q) ==
    LET ix == FindIndex(items[t], p)
    IN
    /\ lastCall' = [op |-> "updateQuantity", tab |-> t, product |-> p,
                    quantity |-> q]
    /\ IF q < 1
       THEN UNCHANGED <<items, guest_cart, guestWrites, runs, toast>>
       ELSE IF isLoggedIn[t]
       THEN IF ix > 0 /\ items[t][ix].id
            THEN /\ FreeSlots(t) # {}
                 /\ OpBegins(t, FirstFreeSlot(t), "updateCartItem", p, q)
                 /\ UNCHANGED <<items, guest_cart, guestWrites, toast>>
            ELSE UNCHANGED <<items, guest_cart, guestWrites, runs, toast>>
       ELSE IF ix = 0
       THEN UNCHANGED <<items, guest_cart, guestWrites, runs, toast>>
       ELSE IF items[t][ix].stock < q
       THEN /\ toast' = "only_n_available"
            /\ UNCHANGED <<items, guest_cart, guestWrites, runs>>
       ELSE /\ guestWrites < MaxGuestWrites
            /\ items' = [items EXCEPT ![t][ix].quantity = q]
            /\ guestWrites' = guestWrites + 1
            /\ UNCHANGED <<guest_cart, runs, toast>>
    /\ UNCHANGED <<access_token, refresh_token, mergeCalls, storageEvents,
                   isLoggedIn, serverCart, loading, authChanges, pageVars>>

\* updateQuantity(productId, quantity)
UpdateQuantity(t, p, q) ==
    LET ix == FindIndex(items[t], p)
    IN
    /\ lastCall' = [op |-> "updateQuantity", tab |-> t, product |-> p,
                    quantity |-> q]
    /\ IF q < 1
       THEN UNCHANGED <<items, guest_cart, guestWrites, runs, toast>>
       ELSE IF isLoggedIn[t]
       THEN IF ix > 0 /\ items[t][ix].id
            THEN /\ FreeSlots(t) # {}
                 /\ OpBegins(t, FirstFreeSlot(t), "updateCartItem", p, q)
                 /\ UNCHANGED <<items, guest_cart, guestWrites, toast>>
            ELSE UNCHANGED <<items, guest_cart, guestWrites, runs, toast>>
       ELSE IF ix = 0
       THEN UNCHANGED <<items, guest_cart, guestWrites, runs, toast>>
       ELSE IF items[t][ix].stock < q
       THEN /\ toast' = "only_n_available"
            /\ UNCHANGED <<items, guest_cart, guestWrites, runs>>
       ELSE /\ guestWrites < MaxGuestWrites
            /\ items' = [items EXCEPT ![t][ix].quantity = q]
            /\ guest_cart' = StoredGuestCart(items'[t])
            /\ guestWrites' = guestWrites + 1
            /\ UNCHANGED <<runs, toast>>
    /\ UNCHANGED <<access_token, refresh_token, mergeCalls, storageEvents,
                   isLoggedIn, serverCart, loading, authChanges, pageVars>>

\* removeFromCart(productId)
RemoveFromCart(t, p) ==
    LET ix == FindIndex(items[t], p)
    IN
    /\ lastCall' = [op |-> "removeFromCart", tab |-> t, product |-> p,
                    quantity |-> 0]
    /\ IF isLoggedIn[t]
       THEN IF ix > 0 /\ items[t][ix].id
            THEN /\ FreeSlots(t) # {}
                 /\ OpBegins(t, FirstFreeSlot(t), "removeFromCart", p, 0)
                 /\ UNCHANGED <<items, guest_cart, guestWrites, toast>>
            ELSE UNCHANGED <<items, guest_cart, guestWrites, runs, toast>>
       ELSE /\ guestWrites < MaxGuestWrites
            /\ items' = [items EXCEPT ![t] = FilterOut(items[t], p)]
            /\ guest_cart' = StoredGuestCart(items'[t])
            /\ guestWrites' = guestWrites + 1
            /\ toast' = "removed"
            /\ UNCHANGED runs
    /\ UNCHANGED <<access_token, refresh_token, mergeCalls, storageEvents,
                   isLoggedIn, serverCart, loading, authChanges, pageVars>>

\* POST /cart/add, PUT /cart/{id}, DELETE /cart/{id} on the backend.
ServerApply(cart, op, p, q) ==
    IF op = "addToCart"
    THEN [cart EXCEPT ![p] = MinOf(MaxServerQty, cart[p] + q)]
    ELSE IF op = "updateCartItem"
    THEN [cart EXCEPT ![p] = IF cart[p] > 0 THEN q ELSE 0]
    ELSE [cart EXCEPT ![p] = 0]

\* The server call of a cart operation answered: on success
\* `await refreshCart()` starts in the same activation, on failure the
\* catch block shows a notification.
OpReturns(t, k, ok) ==
    LET r == runs[t][k]
    IN
    /\ r.pc \in {"addToCart", "updateCartItem", "removeFromCart"}
    /\ MayAnswer(r, ok)
    /\ UNCHANGED <<access_token, refresh_token>>
    /\ IF ok
       THEN /\ serverCart' = ServerApply(serverCart, r.pc, r.product,
                                         r.quantity)
            /\ RefreshCartBegins(t, k, r.L, r.origin)
            /\ UNCHANGED toast
       ELSE /\ toast' = "operation_failed"
            /\ runs' = [runs EXCEPT ![t][k] = IdleRun]
            /\ UNCHANGED <<serverCart, loading, items, guest_cart,
                           mergeCalls>>
    /\ UNCHANGED <<storageEvents, isLoggedIn, lastCall, authChanges,
                   guestWrites, pageVars>>

\* The items a provider in guest mode reads from a guest_cart entry.
StoredItems(entry) == IF entry.present THEN JSONParse(entry.text) ELSE <<>>

\* The items a provider in guest mode reads from local storage.
GuestItems == StoredItems(guest_cart)

\* The CartProvider of tab t is mounted in guest mode (the page is loaded
\* again): items start empty and the first refreshCart reads guest_cart.
CartProviderMount(t) ==
    /\ ~isLoggedIn[t]
    /\ lastCall' = [op |-> "mount", tab |-> t, product |-> "none",
                    quantity |-> 0]
    /\ items' = [items EXCEPT ![t] = StoredItems(guest_cart)]
    /\ loading' = [loading EXCEPT ![t] = FALSE]
    /\ runs' = [runs EXCEPT ![t] = [k \in 1..MaxRuns |-> IdleRun]]
    /\ UNCHANGED <<access_token, refresh_token, mergeCalls, storageEvents,
                   isLoggedIn, guest_cart, serverCart, authChanges,
                   guestWrites, toast, pageVars>>

\* The state the logout handlers and the queries leave alone.
authFrame == <<serverCart, lastCall, guestWrites, toast, orders,
               selectedAddressId, processing, orderInFlight,
               paymentJustCompleted, orderSuccess, flows, rejected,
               createOrderCalls, createPaymentCalls, verifyPaymentCalls,
               clearCartCalls, requests, redirected, secureStorage,
               mobileRequests, screenVars, guardVars>>

\* AuthContext.logout up to `await apiService.logout()`.
Logout(t) ==
    /\ authChanges < MaxAuthChanges
    /\ authChanges' = authChanges + 1
    /\ FreeSlots(t) # {}
    /\ logoutCalls' = Append(logoutCalls, [tab |-> t, state |-> "pending"])
    /\ runs' = [runs EXCEPT ![t][FirstFreeSlot(t)] =
                   [IdleRun EXCEPT !.pc = "logout", !.origin = "logout",
                                   !.mergeIx = Len(logoutCalls) + 1,
                                   !.token = access_token]]
    /\ UNCHANGED <<access_token, refresh_token, mergeCalls, storageEvents,
                   isLoggedIn, items, guest_cart, loading, queryCache,
                   authFrame>>

\* The finally block of ApiService.logout: both tokens are removed; the
\* other tabs get a 'storage' event when access_token was there.
RemoveTokens(t) ==
    /\ access_token' = FALSE
    /\ refresh_token' = FALSE
    /\ storageEvents' = IF access_token THEN Broadcast(t, FALSE)
                        ELSE storageEvents

\* An AuthContext.logout that clears the session only when the server
\* call succeeded.
LogoutReturnsOnlyOnSuccess(t, k, ok) ==
    /\ runs[t][k].pc = "logout"
    /\ MayAnswer(runs[t][k], ok)
    /\ logoutCalls' = [logoutCalls EXCEPT ![runs[t][k].mergeIx].state =
                           IF ok THEN "ok" ELSE "failed"]
    /\ IF ok
       THEN /\ RemoveTokens(t)
            /\ isLoggedIn' = [isLoggedIn EXCEPT ![t] = FALSE]
            /\ queryCache' = [queryCache EXCEPT ![t] = FALSE]
            /\ IF isLoggedIn[t]
               THEN RefreshCartBegins(t, k, FALSE, "auth")
               ELSE /\ runs' = [runs EXCEPT ![t][k] = IdleRun]
                    /\ UNCHANGED <<loading, items, guest_cart, mergeCalls>>
       ELSE /\ runs' = [runs EXCEPT ![t][k] = IdleRun]
            /\ UNCHANGED <<access_token, refresh_token, storageEvents,
                           isLoggedIn, queryCache, loading, items,
                           guest_cart, mergeCalls>>
    /\ UNCHANGED <<authChanges, authFrame>>

\* POST /auth/logout answered, with success or with an error: the finally
\* blocks of ApiService.logout and of AuthContext.logout remove the tokens,
\* setIsLoggedIn(false) and queryClient.clear(); the [isLoggedIn] effect
\* runs refreshCart.
LogoutReturns(t, k, ok) ==
    /\ runs[t][k].pc = "logout"
    /\ MayAnswer(runs[t][k], ok)
    /\ logoutCalls' = [logoutCalls EXCEPT ![runs[t][k].mergeIx].state =
                           IF ok THEN "ok" ELSE "failed"]
    /\ RemoveTokens(t)
    /\ isLoggedIn' = [isLoggedIn EXCEPT ![t] = FALSE]
    /\ queryCache' = [queryCache EXCEPT ![t] = FALSE]
    /\ IF isLoggedIn[t]
       THEN RefreshCartBegins(t, k, FALSE, "auth")
       ELSE /\ runs' = [runs EXCEPT ![t][k] = IdleRun]
            /\ UNCHANGED <<loading, items, guest_cart, mergeCalls>>
    /\ UNCHANGED <<authChanges, authFrame>>

\* logout.mutate() of the useLogout hook: apiService.logout() is called.
UseLogoutMutate(t) ==
    /\ authChanges < MaxAuthChanges
    /\ authChanges' = authChanges + 1
    /\ FreeSlots(t) # {}
    /\ logoutCalls' = Append(logoutCalls, [tab |-> t, state |-> "pending"])
    /\ runs' = [runs EXCEPT ![t][FirstFreeSlot(t)] =
                   [IdleRun EXCEPT !.pc = "useLogout", !.origin = "useLogout",
                                   !.mergeIx = Len(logoutCalls) + 1,
                                   !.token = access_token]]
    /\ UNCHANGED <<access_token, refresh_token, mergeCalls, storageEvents,
                   isLoggedIn, items, guest_cart, loading, queryCache,
                   authFrame>>

\* The mutation of useLogout settles: ApiService.logout has removed the
\* tokens; onSuccess clears the query cache.
UseLogoutReturns(t, k, ok) ==
    /\ runs[t][k].pc = "useLogout"
    /\ MayAnswer(runs[t][k], ok)
    /\ logoutCalls' = [logoutCalls EXCEPT ![runs[t][k].mergeIx].state =
                           IF ok THEN "ok" ELSE "failed"]
    /\ RemoveTokens(t)
    /\ queryCache' = [queryCache EXCEPT ![t] = IF ok THEN FALSE ELSE @]
    /\ runs' = [runs EXCEPT ![t][k] = IdleRun]
    /\ UNCHANGED <<isLoggedIn, loading, items, guest_cart, mergeCalls,
                   authChanges, authFrame>>

\* A query of the page (useProfile, useOrders, useAddresses: enabled while
\* the token is there) resolves and its data enters the cache.
QueryFetched(t) ==
    /\ access_token
    /\ ~queryCache[t]
    /\ queryCache' = [queryCache EXCEPT ![t] = TRUE]
    /\ UNCHANGED <<access_token, refresh_token, mergeCalls, storageEvents,
                   isLoggedIn, items, guest_cart, loading, runs, logoutCalls,
                   authChanges, authFrame>>

\* ---------------------------------------------------------- specifications
InitCart ==
    /\ access_token = FALSE
    /\ refresh_token = FALSE
    /\ mergeCalls = <<>>
    /\ storageEvents = [t \in Tabs |-> <<>>]
    /\ loading = [t \in Tabs |-> FALSE]
    /\ runs = [t \in Tabs |-> [k \in 1..MaxRuns |-> IdleRun]]
    /\ lastCall = NoCall
    /\ authChanges = 0
    /\ guestWrites = 0
    /\ requests = [r \in 1..MaxRequests |-> NewRequest]
    /\ redirected = FALSE
    /\ queryCache = [t \in Tabs |-> FALSE]
    /\ logoutCalls = <<>>
    /\ secureStorage = NoSecureStorage
    /\ mobileRequests = [r \in 1..MaxRequests |-> NewMobileRequest]
    /\ NoAccountPage
    /\ NoMobileApp
    /\ NoCheckoutPage
    /\ guest_cart = NoGuestCart
    /\ serverCart = EmptyServerCart
    /\ isLoggedIn = [t \in Tabs |-> FALSE]
    /\ items = [t \in Tabs |-> <<>>]
    /\ orders = <<>>
    /\ selectedAddressId = NoAddress
    /\ processing = FALSE
    /\ orderInFlight = FALSE
    /\ paymentJustCompleted = FALSE
    /\ orderSuccess = 0
    /\ toast = "none"
    /\ flows = <<>>
    /\ rejected = FALSE
    /\ createOrderCalls = <<>>
    /\ createPaymentCalls = <<>>
    /\ verifyPaymentCalls = <<>>
    /\ clearCartCalls = <<>>

\* Arguments the guest-cart specification passes to the operations.
GuestQuantities == {-1, 0, 1, 4, 11}

\* One tab in guest mode: the three cart operations with any arguments.
GuestStep ==
    \/ \E p \in Products, q \in GuestQuantities, active \in BOOLEAN :
          AddToCart(1, p, q, CatalogueStock(p), active)
    \/ \E p \in Products, q \in GuestQuantities : UpdateQuantity(1, p, q)
    \/ \E p \in Products : RemoveFromCart(1, p)
    \/ CartProviderMount(1)

SpecGuest == InitCart /\ [][GuestStep]_vars

\* Two tabs around login and logout: tab 1 is the one the user works in,
\* tab 2 follows through the storage events.
CartStep ==
    \/ Login(1)
    \/ AddToCart(1, "p1", 1, CatalogueStock("p1"), TRUE)
    \/ \E t \in Tabs : HandleStorage(t)
    \/ \E t \in Tabs, k \in 1..MaxRuns, ok \in BOOLEAN :
          \/ MergeCartReturns(t, k, ok)
          \/ GetCartReturns(t, k, ok)
          \/ OpReturns(t, k, ok)

SpecCart == InitCart /\ [][CartStep]_vars

\* --------------------------------------------- properties of CartProvider
\* Every line of a list of cart items is within min(stock, 10).
WithinStockAndCap(its) ==
    \A k \in 1..Len(its) :
        its[k].quantity <= MinOf(its[k].stock, QuantityCap)

\* C2: in guest mode every item of the guest cart, in memory and in the
\* guest_cart entry, has quantity <= min(product.stock, 10).
C2_GuestQuantityWithinStockAndCap ==
    \A t \in Tabs :
        ~isLoggedIn[t] =>
            /\ WithinStockAndCap(items[t])
            /\ WithinStockAndCap(JSONParse(guest_cart.text))

\* A step in which tab t, in guest mode, calls updateQuantity(p, q) with q
\* below 1 or above the stock of the item.
RejectedUpdate(t, p, q) ==
    /\ ~isLoggedIn[t]
    /\ lastCall' = [op |-> "updateQuantity", tab |-> t, product |-> p,
                    quantity |-> q]
    /\ \/ q < 1
       \/ /\ FindIndex(items[t], p) > 0
          /\ q > items[t][FindIndex(items[t], p)].stock

\* C15: updateQuantity with a quantity below 1 or above the stock of the
\* item leaves the cart as it is and shows a notification.
C15_RejectedUpdateNotifies ==
    [][\A t \in Tabs, p \in Products, q \in GuestQuantities :
          RejectedUpdate(t, p, q) =>
              /\ UNCHANGED <<items, guest_cart>>
              /\ toast' \in {"only_n_available", "operation_failed"}]_vars

\* A step in which tab t, in guest mode, makes a call of the cart provider
\* (one of the three operations, or the mount of the provider).
GuestCall(t) ==
    /\ ~isLoggedIn[t]
    /\ lastCall'.tab = t
    /\ lastCall'.op \in {"addToCart", "updateQuantity", "removeFromCart",
                          "mount"}

\* C16: in guest mode, when addToCart, updateQuantity or removeFromCart
\* returns the items in memory are the items stored under guest_cart (none
\* when the entry is absent), and a provider mounted again reads the same
\* items.
C16_GuestItemsEqualStorage ==
    [][\A t \in Tabs :
          GuestCall(t) => items'[t] = StoredItems(guest_cart')]_vars

C16_Witness ==
    /\ lastCall = [op |-> "mount", tab |-> 1, product |-> "none",
                   quantity |-> 0]
    /\ guestWrites >= 3
    /\ Len(items[1]) = 2
    /\ items[1][1].quantity = 4
    /\ items[1] = GuestItems

\* C19: every item of the guest cart, in memory and in the guest_cart
\* entry, has quantity >= 1.
C19_GuestQuantityAtLeastOne ==
    \A t \in Tabs :
        ~isLoggedIn[t] =>
            /\ \A i \in 1..Len(items[t]) : items[t][i].quantity >= 1
            /\ \A i \in 1..Len(GuestItems) : GuestItems[i].quantity >= 1

\* No two lines of a list of cart items are for the same product.
NoDuplicates(its) ==
    \A i, j \in 1..Len(its) : i # j => its[i].product_id # its[j].product_id

\* C28: in guest mode the guest cart, in memory and in the guest_cart
\* entry, holds at most one item per product_id.
C28_OneItemPerProduct ==
    \A t \in Tabs :
        ~isLoggedIn[t] =>
            /\ NoDuplicates(items[t])
            /\ NoDuplicates(GuestItems)

C28_Witness ==
    /\ ~isLoggedIn[1]
    /\ lastCall.op = "addToCart"
    /\ Len(items[1]) = 2
    /\ lastCall.product = items[1][1].product_id
    /\ items[1][1].quantity = 2
    /\ items[1][2].quantity = 1
    /\ items[1] = GuestItems

\* A step that ends the refreshCart run the login transition started in
\* slot k of tab t, the run having found a guest cart with items.
LoginRunEnds(t, k) ==
    /\ runs[t][k].pc = "getCart"
    /\ runs[t][k].origin = "auth"
    /\ runs[t][k].L
    /\ runs[t][k].payload # <<>>
    /\ runs'[t][k].pc = "idle"

\* Lines of a list of items for product p.
LinesOf(its, p) == {i \in 1..Len(its) : its[i].product_id = p}

\* Merge requests carrying the guest cart content ver that the backend
\* has applied.
TimesMerged(calls, ver) ==
    Cardinality({i \in 1..Len(calls) :
                    calls[i].ver = ver /\ calls[i].state = "ok"})

\* C3: when the refreshCart run of the login transition ends, every product
\* of the guest cart is one line of the server cart shown, its quantity was
\* merged one time, and guest_cart is absent.
C3_GuestItemsMergedOnce ==
    [][\A t \in Tabs, k \in 1..MaxRuns :
          LoginRunEnds(t, k) =>
              /\ \A j \in 1..Len(runs[t][k].payload) :
                    /\ Cardinality(LinesOf(items'[t],
                                   runs[t][k].payload[j].product_id)) = 1
                    /\ items'[t][CHOOSE i \in LinesOf(items'[t],
                                   runs[t][k].payload[j].product_id) : TRUE].id
              /\ TimesMerged(mergeCalls',
                             mergeCalls[runs[t][k].mergeIx].ver) = 1
              /\ ~guest_cart'.present]_vars

\* C4: one guest_cart content is sent to the server as a merge request at
\* most once.
C4_MergeSentAtMostOnce ==
    \A i, j \in 1..Len(mergeCalls) :
        i # j => mergeCalls[i].ver # mergeCalls[j].ver

\* ------------------------------------------------- the cart of a member
\* Quantities the member specification passes to updateQuantity.
MemberQuantities == {0, 2}

\* One tab of a logged-in user on the cart page: the three operations on
\* the product in the cart while the tab is logged in, logout, and the
\* answers of the backend.
MemberStep ==
    \/ /\ isLoggedIn[1]
       /\ \/ AddToCart(1, "p1", 1, CatalogueStock("p1"), TRUE)
          \/ \E q \in MemberQuantities : UpdateQuantity(1, "p1", q)
          \/ RemoveFromCart(1, "p1")
          \/ Logout(1)
    \/ \E k \in 1..MaxRuns, ok \in BOOLEAN :
          \/ OpReturns(1, k, ok)
          \/ GetCartReturns(1, k, ok)
          \/ LogoutReturns(1, k, ok)

\* The server cart holds one item and the provider has loaded it.
InitMember ==
    /\ access_token = TRUE
    /\ refresh_token = TRUE
    /\ mergeCalls = <<>>
    /\ storageEvents = [t \in Tabs |-> <<>>]
    /\ loading = [t \in Tabs |-> FALSE]
    /\ runs = [t \in Tabs |-> [k \in 1..MaxRuns |-> IdleRun]]
    /\ lastCall = NoCall
    /\ authChanges = 0
    /\ guestWrites = 0
    /\ requests = [r \in 1..MaxRequests |-> NewRequest]
    /\ redirected = FALSE
    /\ queryCache = [t \in Tabs |-> FALSE]
    /\ logoutCalls = <<>>
    /\ secureStorage = NoSecureStorage
    /\ mobileRequests = [r \in 1..MaxRequests |-> NewMobileRequest]
    /\ NoAccountPage
    /\ NoMobileApp
    /\ NoCheckoutPage
    /\ guest_cart = NoGuestCart
    /\ serverCart = [EmptyServerCart EXCEPT !["p1"] = 1]
    /\ isLoggedIn = [t \in Tabs |-> TRUE]
    /\ items = [t \in Tabs |-> ServerItems(serverCart)]
    /\ orders = <<>>
    /\ selectedAddressId = NoAddress
    /\ processing = FALSE
    /\ orderInFlight = FALSE
    /\ paymentJustCompleted = FALSE
    /\ orderSuccess = 0
    /\ toast = "none"
    /\ flows = <<>>
    /\ rejected = FALSE
    /\ createOrderCalls = <<>>
    /\ createPaymentCalls = <<>>
    /\ verifyPaymentCalls = <<>>
    /\ clearCartCalls = <<>>

SpecMember == InitMember /\ [][MemberStep]_vars


\* A step that ends the removeFromCart run in slot k of tab t: the DELETE
\* has succeeded and the refreshCart of the run is over.
RemoveRunEnds(t, k) ==
    /\ runs[t][k].pc = "getCart"
    /\ runs[t][k].origin = "removeFromCart"
    /\ runs'[t][k].pc = "idle"

\* A step in which tab t calls removeFromCart(p) in guest mode.
GuestRemoveCall(t, p) ==
    /\ ~isLoggedIn[t]
    /\ guestWrites' = guestWrites + 1
    /\ lastCall' = [op |-> "removeFromCart", tab |-> t, product |-> p,
                    quantity |-> 0]

\* C14: removeFromCart of the only item of the cart leaves zero items in
\* memory: in guest mode when the call returns, in authenticated mode when
\* the run whose DELETE succeeded ends, the cart shown having one item and
\* the server cart none.
C14_RemovingLastItemEmptiesCart ==
    [][\A t \in Tabs :
          /\ \A p \in Products :
                (GuestRemoveCall(t, p) /\ Len(items[t]) = 1
                    /\ items[t][1].product_id = p)
                   => items'[t] = <<>>
          /\ \A k \in 1..MaxRuns :
                (RemoveRunEnds(t, k) /\ Len(items[t]) = 1
                    /\ ServerItems(serverCart') = <<>>)
                   => items'[t] = <<>>]_vars

\* C17: a tab that has logged out and whose refreshCart run of the auth
\* change is over shows the content of guest_cart, the empty list when the
\* entry is absent, and no item of the server cart.
C17_GuestItemsAfterLogout ==
    \A t \in Tabs :
        ~isLoggedIn[t] =>
            /\ items[t] = GuestItems
            /\ \A i \in 1..Len(items[t]) : ~items[t][i].id

\* The activation in slot k of tab t is one of addToCart, updateQuantity,
\* removeFromCart called in authenticated mode.
MemberRun(t, k) ==
    /\ runs[t][k].origin \in {"addToCart", "updateCartItem",
                               "removeFromCart"}
    /\ runs[t][k].L

\* C18: in authenticated mode the three operations leave the guest_cart
\* entry as it is, from the call to the end of the run; a server call that
\* succeeds is followed by a fetch of the server cart, and the result of
\* the fetch replaces the items in memory.
C18_MemberOpsLeaveGuestCart ==
    [][\A t \in Tabs :
          /\ (isLoggedIn[t] /\ lastCall' # lastCall /\ lastCall'.tab = t)
                => guest_cart' = guest_cart
          /\ \A k \in 1..MaxRuns :
                (MemberRun(t, k) /\ runs'[t][k] # runs[t][k]) =>
                    /\ guest_cart' = guest_cart
                    /\ (runs[t][k].pc = runs[t][k].origin
                           /\ serverCart' # serverCart)
                          => runs'[t][k].pc \in {"merge", "getCart"}
                    /\ (runs[t][k].pc = "merge")
                          => runs'[t][k].pc = "getCart"
                    /\ (runs[t][k].pc = "getCart")
                          => /\ runs'[t][k].pc = "idle"
                             /\ items'[t] \in {items[t],
                                               ServerItems(serverCart)}]_vars

\* A step that ends the refreshCart run in slot k of tab t, the run having
\* started under an isLoggedIn value the tab has no more.
StaleRefreshEnds(t, k) ==
    /\ runs[t][k].pc = "getCart"
    /\ runs[t][k].L # isLoggedIn[t]
    /\ runs'[t][k].pc = "idle"

\* C26: the end of a refreshCart run started under an earlier auth state
\* leaves the items in memory as the run of the later auth state has set
\* them.
C26_StaleRefreshKeepsItems ==
    [][\A t \in Tabs, k \in 1..MaxRuns :
          StaleRefreshEnds(t, k) => items'[t] = items[t]]_vars

\* A refreshCart run of tab t is in flight.
RefreshInFlight(t) ==
    \E k \in 1..MaxRuns : runs[t][k].pc \in {"merge", "getCart"}

\* No activation of the cart provider of tab t is in flight.
ProviderIdle(t) == \A k \in 1..MaxRuns : runs[t][k].pc = "idle"

\* C27: loading is true while a refreshCart run is in flight and false
\* when the provider is idle.
C27_LoadingWhileRefreshing ==
    \A t \in Tabs :
        /\ RefreshInFlight(t) => loading[t]
        /\ ProviderIdle(t) => ~loading[t]

\* ------------------------------------------- the empty-cart guard of Checkout
\* Invocations of handleCreateOrder the guard specification accepts.
MaxAttempts == 1

\* The request of the first refreshCart of a page load, in slot 1.
FirstLoadRun == [IdleRun EXCEPT !.pc = "getCart", !.L = TRUE,
                                !.origin = "auth", !.token = TRUE]

\* The Checkout page with its timer and the cart provider below it.
CheckoutGuardStep ==
    \/ \E a \in Addresses : SelectAddress(a)
    \/ Len(flows) < MaxAttempts /\ HandleCreateOrder
    \/ \E i \in 1..Len(flows), ok \in BOOLEAN :
          \/ CreateOrderReturns(i, ok)
          \/ CreatePaymentReturns(i, ok)
          \/ LoadScriptReturns(i, ok)
          \/ VerifyPaymentReturns(i, ok)
          \/ ClearCartReturns(i, ok)
    \/ \E i \in 1..Len(flows) :
          \/ PaymentFailed(i)
          \/ Dismiss(i)
          \/ PaymentSucceeded(i)
    \/ CartSettledTimer
    \/ \E k \in 1..MaxRuns, ok \in BOOLEAN : GetCartReturns(CheckoutTab, k, ok)

\* A logged-in user opens /checkout: by its address (the app loads, the
\* first refreshCart is in flight, the server cart holds an item or none),
\* or from the cart page with the cart loaded.
InitCheckoutGuard ==
    /\ access_token = TRUE
    /\ refresh_token = TRUE
    /\ mergeCalls = <<>>
    /\ storageEvents = [t \in Tabs |-> <<>>]
    /\ lastCall = NoCall
    /\ authChanges = 0
    /\ guestWrites = 0
    /\ requests = [r \in 1..MaxRequests |-> NewRequest]
    /\ redirected = FALSE
    /\ queryCache = [t \in Tabs |-> FALSE]
    /\ logoutCalls = <<>>
    /\ secureStorage = NoSecureStorage
    /\ mobileRequests = [r \in 1..MaxRequests |-> NewMobileRequest]
    /\ NoAccountPage
    /\ NoMobileApp
    /\ guest_cart = NoGuestCart
    /\ isLoggedIn = [t \in Tabs |-> TRUE]
    /\ location = "/checkout"
    /\ cartSettled = FALSE
    /\ \E byAddress \in BOOLEAN :
          IF byAddress
          THEN /\ serverCart \in {EmptyServerCart,
                                  [EmptyServerCart EXCEPT !["p1"] = 2]}
               /\ loading = [t \in Tabs |-> t = CheckoutTab]
               /\ runs = [t \in Tabs |-> [k \in 1..MaxRuns |->
                            IF t = CheckoutTab /\ k = 1 THEN FirstLoadRun
                            ELSE IdleRun]]
               /\ items = [t \in Tabs |-> IF t = CheckoutTab THEN <<>>
                                          ELSE ServerItems(serverCart)]
               /\ settleTimer = FALSE
          ELSE /\ serverCart = [EmptyServerCart EXCEPT !["p1"] = 2]
               /\ loading = [t \in Tabs |-> FALSE]
               /\ runs = [t \in Tabs |-> [k \in 1..MaxRuns |-> IdleRun]]
               /\ items = [t \in Tabs |-> ServerItems(serverCart)]
               /\ settleTimer = TRUE
    /\ orders = <<>>
    /\ selectedAddressId = NoAddress
    /\ processing = FALSE
    /\ orderInFlight = FALSE
    /\ paymentJustCompleted = FALSE
    /\ orderSuccess = 0
    /\ toast = "none"
    /\ flows = <<>>
    /\ rejected = FALSE
    /\ createOrderCalls = <<>>
    /\ createPaymentCalls = <<>>
    /\ verifyPaymentCalls = <<>>
    /\ clearCartCalls = <<>>

SpecCheckoutGuard == InitCheckoutGuard /\ [][CheckoutGuardStep]_vars

\* The timer fires and every call of the page and of the cart provider is
\* answered; the user is free to do nothing.
FairSpecCheckoutGuard ==
    /\ SpecCheckoutGuard
    /\ WF_vars(CartSettledTimer)
    /\ WF_vars(\E k \in 1..MaxRuns, ok \in BOOLEAN :
                  GetCartReturns(CheckoutTab, k, ok))
    /\ WF_vars(\E i \in 1..Len(flows), ok \in BOOLEAN :
                  \/ CreateOrderReturns(i, ok)
                  \/ CreatePaymentReturns(i, ok)
                  \/ LoadScriptReturns(i, ok)
                  \/ VerifyPaymentReturns(i, ok)
                  \/ ClearCartReturns(i, ok))

\* A step in which the clearCart of the verified flow i returns.
ClearCartEnds(i) ==
    /\ i \in FlowIds
    /\ flows[i].pc = "clearCart"
    /\ flows'[i].pc = "done"

\* C23: when the cart becomes empty through the clearCart that follows a
\* successful verification, the page stays on /checkout and shows the
\* success popup of the order; a page showing the popup has not been
\* redirected.
C23_NoRedirectAfterPayment ==
    /\ [][\A i \in 1..(MaxAttempts + 1) :
             ClearCartEnds(i) =>
                /\ items'[CheckoutTab] = <<>>
                /\ location' = "/checkout"
                /\ orderSuccess' = flows[i].orderId]_vars
    /\ [](paymentJustCompleted => location = "/checkout")

C23_Witness ==
    /\ cartSettled
    /\ paymentJustCompleted
    /\ items[CheckoutTab] = <<>>
    /\ ~loading[CheckoutTab]
    /\ orderSuccess # 0
    /\ location = "/checkout"

\* The cart of the page has loaded and settled with no item, for a
\* logged-in user and with no payment just completed.
SettledEmpty ==
    /\ location = "/checkout"
    /\ isLoggedIn[CheckoutTab]
    /\ ~loading[CheckoutTab]
    /\ cartSettled
    /\ ItemCount(items[CheckoutTab]) = 0
    /\ ~paymentJustCompleted

\* C24: the page whose cart has settled empty eventually navigates to
\* /cart, and no step navigates to /cart before the cart has settled.
C24_EmptyCartLeavesCheckout ==
    /\ [][(location = "/checkout" /\ location' = "/cart")
             => (cartSettled /\ ~loading'[CheckoutTab]
                 /\ ItemCount(items'[CheckoutTab]) = 0)]_vars
    /\ (SettledEmpty ~> (location = "/cart"))

\* =============================================================== Account
\* The Account page lives in tab 1.  Its handleContinuePayment has the steps
\* of handleCreateOrder from createPayment on, for an order that exists.
nonAccountVars == <<cartVars, access_token, refresh_token, mergeCalls,
                    storageEvents, loading, runs, lastCall, authChanges,
                    guestWrites, requests, redirected, queryCache,
                    logoutCalls, secureStorage, mobileRequests, routerVars,
                    otpVars, selectedAddressId, processing, orderInFlight,
                    paymentJustCompleted, orderSuccess, flows, rejected,
                    createOrderCalls, clearCartCalls, guardVars>>

NewAccountFlow(o) ==
    [pc |-> "createPayment", orderId |-> o, rzp |-> 0, widgetOrderId |-> 0,
     failed |-> FALSE, outcome |-> "none",
     startPayments |-> Len(createPaymentCalls), endPayments |-> -1]

\* History bookkeeping: the first terminal outcome of a flow and the number
\* of createPayment calls issued up to it.
AccountTerminal(f, what) ==
    IF f.outcome = "none"
    THEN [f EXCEPT !.outcome = what, !.endPayments = Len(createPaymentCalls)]
    ELSE f

AccountWidgetOpen ==
    \E i \in 1..Len(accountFlows) : accountFlows[i].pc = "widget"

\* The statuses GET /orders returns.
OrderStatuses == [o \in 1..Len(orders) |-> orders[o].status]

\* The Continue Payment button of order o is shown and enabled.
ContinueButton(o) ==
    /\ isLoggedIn[CheckoutTab]
    /\ ~AccountWidgetOpen
    /\ o \in 1..Len(ordersData)
    /\ ordersData[o] = "pending"
    /\ payingOrderId # o

\* setPayingOrderId(null); paymentInFlight.current = false
ReleasePayment ==
    /\ payingOrderId' = 0
    /\ paymentInFlight' = FALSE

\* handleContinuePayment(order) up to its first await.
HandleContinuePayment(o) ==
    /\ ContinueButton(o)
    /\ ~paymentInFlight
    /\ Len(accountFlows) < MaxFlows
    /\ paymentInFlight' = TRUE
    /\ payingOrderId' = o
    /\ createPaymentCalls' = Append(createPaymentCalls, o)
    /\ accountFlows' = Append(accountFlows, NewAccountFlow(o))
    /\ UNCHANGED <<orders, ordersData, verifyPaymentCalls, toast,
                   nonAccountVars>>

\* createPayment answered: on success the gateway script is loaded.
ContinuePaymentReturns(i, ok) ==
    LET o == accountFlows[i].orderId
    IN
    /\ accountFlows[i].pc = "createPayment"
    /\ IF ok
       THEN /\ orders' = [orders EXCEPT ![o].rzp = RazorpayOrderId(o)]
            /\ accountFlows' = [accountFlows EXCEPT
                                   ![i].pc = "loadScript",
                                   ![i].rzp = RazorpayOrderId(o)]
            /\ UNCHANGED <<toast, payingOrderId, paymentInFlight>>
       ELSE /\ toast' = "payment_init_failed"
            /\ ReleasePayment
            /\ accountFlows' = [accountFlows EXCEPT ![i] =
                  AccountTerminal([@ EXCEPT !.pc = "done"], "payment_error")]
            /\ UNCHANGED orders
    /\ UNCHANGED <<ordersData, createPaymentCalls, verifyPaymentCalls,
                   nonAccountVars>>

\* loadRazorpayScript resolved: the widget is opened, or the run gives up.
ContinueScriptReturns(i, loaded) ==
    /\ accountFlows[i].pc = "loadScript"
    /\ IF loaded
       THEN /\ accountFlows' = [accountFlows EXCEPT
                                   ![i].pc = "widget",
                                   ![i].widgetOrderId = accountFlows[i].rzp]
            /\ UNCHANGED <<toast, payingOrderId, paymentInFlight>>
       ELSE /\ toast' = "gateway_load_failed"
            /\ ReleasePayment
            /\ accountFlows' = [accountFlows EXCEPT ![i] =
                  AccountTerminal([@ EXCEPT !.pc = "done"], "script_error")]
    /\ UNCHANGED <<orders, ordersData, createPaymentCalls,
                   verifyPaymentCalls, nonAccountVars>>

\* rzp.on('payment.failed') of the Account page: the widget stays open.
ContinuePaymentFailed(i) ==
    /\ accountFlows[i].pc = "widget"
    /\ toast' = "payment_failed"
    /\ ReleasePayment
    /\ accountFlows' = [accountFlows EXCEPT ![i] =
          AccountTerminal([@ EXCEPT !.failed = TRUE], "payment_failed")]
    /\ UNCHANGED <<orders, ordersData, createPaymentCalls,
                   verifyPaymentCalls, nonAccountVars>>

\* modal.ondismiss of the Account page
ContinueDismiss(i) ==
    /\ accountFlows[i].pc = "widget"
    /\ toast' = "payment_cancelled"
    /\ ReleasePayment
    /\ accountFlows' = [accountFlows EXCEPT ![i] =
          AccountTerminal([@ EXCEPT !.pc = "done"], "dismissed")]
    /\ UNCHANGED <<orders, ordersData, createPaymentCalls,
                   verifyPaymentCalls, nonAccountVars>>

\* options.handler of the Account page up to its await.
ContinuePaymentSucceeded(i) ==
    /\ accountFlows[i].pc = "widget"
    /\ verifyPaymentCalls' = Append(verifyPaymentCalls,
                                    accountFlows[i].widgetOrderId)
    /\ accountFlows' = [accountFlows EXCEPT ![i].pc = "verify"]
    /\ UNCHANGED <<orders, ordersData, createPaymentCalls, toast,
                   payingOrderId, paymentInFlight, nonAccountVars>>

\* verifyPayment answered: notification, refetchOrders() on success, and the
\* finally block.
ContinueVerifyReturns(i, ok) ==
    /\ accountFlows[i].pc = "verify"
    /\ orders' = IF ok
                 THEN [j \in 1..Len(orders) |->
                         IF orders[j].rzp = accountFlows[i].widgetOrderId
                         THEN [orders[j] EXCEPT !.status = "confirmed"]
                         ELSE orders[j]]
                 ELSE orders
    /\ toast' = IF ok THEN "payment_success" ELSE "verify_failed"
    /\ ReleasePayment
    /\ accountFlows' = [accountFlows EXCEPT ![i] =
          AccountTerminal([@ EXCEPT !.pc = "done"],
                          IF ok THEN "verified" ELSE "verify_failed")]
    /\ UNCHANGED <<ordersData, createPaymentCalls, verifyPaymentCalls,
                   nonAccountVars>>

\* The orders query is fetched again (refetchOrders, or a refetch of the
\* query client).
OrdersFetched ==
    /\ ordersData # OrderStatuses
    /\ ordersData' = OrderStatuses
    /\ UNCHANGED <<orders, createPaymentCalls, verifyPaymentCalls, toast,
                   payingOrderId, paymentInFlight, accountFlows,
                   nonAccountVars>>

AccountStep ==
    \/ \E o \in 1..Len(orders) : HandleContinuePayment(o)
    \/ \E i \in 1..Len(accountFlows), ok \in BOOLEAN :
          \/ ContinuePaymentReturns(i, ok)
          \/ ContinueScriptReturns(i, ok)
          \/ ContinueVerifyReturns(i, ok)
    \/ \E i \in 1..Len(accountFlows) :
          \/ ContinuePaymentFailed(i)
          \/ ContinueDismiss(i)
          \/ ContinuePaymentSucceeded(i)
    \/ OrdersFetched

\* An order left pending by the checkout page.
PendingOrder == [status |-> "pending", address |-> "a1", rzp |-> 0]

\* The Account page of a logged-in user with two pending orders.
InitAccount ==
    /\ access_token = TRUE
    /\ refresh_token = TRUE
    /\ mergeCalls = <<>>
    /\ storageEvents = [t \in Tabs |-> <<>>]
    /\ loading = [t \in Tabs |-> FALSE]
    /\ runs = [t \in Tabs |-> [k \in 1..MaxRuns |-> IdleRun]]
    /\ lastCall = NoCall
    /\ authChanges = 0
    /\ guestWrites = 0
    /\ requests = [r \in 1..MaxRequests |-> NewRequest]
    /\ redirected = FALSE
    /\ queryCache = [t \in Tabs |-> TRUE]
    /\ logoutCalls = <<>>
    /\ secureStorage = NoSecureStorage
    /\ mobileRequests = [r \in 1..MaxRequests |-> NewMobileRequest]
    /\ NoMobileApp
    /\ location = "/account"
    /\ cartSettled = FALSE
    /\ settleTimer = FALSE
    /\ paymentInFlight = FALSE
    /\ payingOrderId = 0
    /\ orders = <<PendingOrder, PendingOrder>>
    /\ ordersData = <<"pending", "pending">>
    /\ accountFlows = <<>>
    /\ guest_cart = NoGuestCart
    /\ serverCart = [EmptyServerCart EXCEPT !["p1"] = 2]
    /\ isLoggedIn = [t \in Tabs |-> TRUE]
    /\ items = [t \in Tabs |-> ServerItems(serverCart)]
    /\ selectedAddressId = NoAddress
    /\ processing = FALSE
    /\ orderInFlight = FALSE
    /\ paymentJustCompleted = FALSE
    /\ orderSuccess = 0
    /\ toast = "none"
    /\ flows = <<>>
    /\ rejected = FALSE
    /\ createOrderCalls = <<>>
    /\ createPaymentCalls = <<>>
    /\ verifyPaymentCalls = <<>>
    /\ clearCartCalls = <<>>

SpecAccount == InitAccount /\ [][AccountStep]_vars

\* createPayment calls issued from the acceptance of flow i of the Account
\* page up to its first terminal outcome (up to now while it has none).
AccountPaymentsInWindow(i) ==
    (IF accountFlows[i].endPayments = -1 THEN Len(createPaymentCalls)
                                         ELSE accountFlows[i].endPayments)
        - accountFlows[i].startPayments

\* C21: handleContinuePayment calls createPayment for the pending order it
\* was given and never createOrder, and from its acceptance to its terminal
\* outcome no other createPayment call is issued.
C21_OneContinuePaymentAtATime ==
    /\ createOrderCalls = <<>>
    /\ Len(createPaymentCalls) = Len(accountFlows)
    /\ \A i \in 1..Len(accountFlows) :
          /\ createPaymentCalls[i] = accountFlows[i].orderId
          /\ accountFlows[i].orderId \in 1..Len(orders)
          /\ AccountPaymentsInWindow(i) = 1

\* ============================================================ ApiService
\* The state the API client does not touch.
nonApiVars == <<guest_cart, serverCart, isLoggedIn, items, mergeCalls,
                loading, runs, lastCall, authChanges, guestWrites,
                queryCache, logoutCalls, secureStorage, mobileRequests,
                screenVars, checkoutVars>>

ApiTab == 1

HttpStatuses == {200, 401, 500}

\* A call through this.client: the request goes out.
SendRequest(r) ==
    /\ requests[r].pc = "new"
    /\ requests' = [requests EXCEPT ![r].pc = "sent", ![r].sends = 1]
    /\ UNCHANGED <<access_token, refresh_token, storageEvents, redirected,
                   nonApiVars>>

\* The request answered 401 without the _retry flag: the _retry flag is set
\* and the refresh call is made.
RespondNoRetryFlag(r, status) ==
    /\ requests[r].pc = "sent"
    /\ requests' =
          IF status = 200
          THEN [requests EXCEPT ![r].pc = "resolved",
                                ![r].lastStatus = status]
          ELSE IF status = 401
          THEN [requests EXCEPT ![r].pc = "refreshing",
                                ![r].refreshes = @ + 1,
                                ![r].lastStatus = status]
          ELSE [requests EXCEPT ![r].pc = "rejected",
                                ![r].lastStatus = status]
    /\ UNCHANGED <<access_token, refresh_token, storageEvents, redirected,
                   nonApiVars>>

\* The response interceptor up to its await.
Respond(r, status) ==
    /\ requests[r].pc = "sent"
    /\ requests' =
          IF status = 200
          THEN [requests EXCEPT ![r].pc = "resolved",
                                ![r].lastStatus = status]
          ELSE IF status = 401 /\ ~requests[r]._retry
          THEN [requests EXCEPT ![r].pc = "refreshing",
                                ![r]._retry = TRUE,
                                ![r].refreshes = @ + 1,
                                ![r].lastStatus = status]
          ELSE [requests EXCEPT ![r].pc = "rejected",
                                ![r].lastStatus = status]
    /\ UNCHANGED <<access_token, refresh_token, storageEvents, redirected,
                   nonApiVars>>

\* An interceptor that sends the request again after a failed refresh.
RefreshReturnsResendsOnFailure(r, ok, rotated) ==
    /\ requests[r].pc = "refreshing"
    /\ IF ok
       THEN /\ access_token' = TRUE
            /\ refresh_token' = (rotated \/ refresh_token)
            /\ storageEvents' = Broadcast(ApiTab, TRUE)
            /\ requests' = [requests EXCEPT ![r].pc = "sent",
                                            ![r].sends = @ + 1]
            /\ UNCHANGED redirected
       ELSE /\ access_token' = FALSE
            /\ refresh_token' = FALSE
            /\ storageEvents' = IF access_token THEN Broadcast(ApiTab, FALSE)
                                ELSE storageEvents
            /\ redirected' = TRUE
            /\ requests' = [requests EXCEPT ![r].pc = "sent",
                                            ![r].sends = @ + 1]
    /\ UNCHANGED nonApiVars

\* POST /auth/refresh answered.  On success the tokens are stored (the
\* refresh token when the answer carries a new one) and the request is sent
\* again; on failure both tokens are removed, the browser is sent to /login
\* and the request is rejected.
RefreshReturns(r, ok, rotated) ==
    /\ requests[r].pc = "refreshing"
    /\ IF ok
       THEN /\ access_token' = TRUE
            /\ refresh_token' = (rotated \/ refresh_token)
            /\ storageEvents' = Broadcast(ApiTab, TRUE)
            /\ requests' = [requests EXCEPT ![r].pc = "sent",
                                            ![r].sends = @ + 1]
            /\ UNCHANGED redirected
       ELSE /\ access_token' = FALSE
            /\ refresh_token' = FALSE
            /\ storageEvents' = IF access_token THEN Broadcast(ApiTab, FALSE)
                                ELSE storageEvents
            /\ redirected' = TRUE
            /\ requests' = [requests EXCEPT ![r].pc = "rejected"]
    /\ UNCHANGED nonApiVars

ApiStep ==
    \/ \E r \in 1..MaxRequests : SendRequest(r)
    \/ \E r \in 1..MaxRequests, status \in HttpStatuses : Respond(r, status)
    \/ \E r \in 1..MaxRequests, ok \in BOOLEAN, rotated \in BOOLEAN :
          RefreshReturns(r, ok, rotated)

\* A logged-in tab.
InitApi ==
    /\ access_token = TRUE
    /\ refresh_token = TRUE
    /\ mergeCalls = <<>>
    /\ storageEvents = [t \in Tabs |-> <<>>]
    /\ loading = [t \in Tabs |-> FALSE]
    /\ runs = [t \in Tabs |-> [k \in 1..MaxRuns |-> IdleRun]]
    /\ lastCall = NoCall
    /\ authChanges = 0
    /\ guestWrites = 0
    /\ requests = [r \in 1..MaxRequests |-> NewRequest]
    /\ redirected = FALSE
    /\ queryCache = [t \in Tabs |-> FALSE]
    /\ logoutCalls = <<>>
    /\ secureStorage = NoSecureStorage
    /\ mobileRequests = [r \in 1..MaxRequests |-> NewMobileRequest]
    /\ NoAccountPage
    /\ NoMobileApp
    /\ NoCheckoutPage
    /\ guest_cart = NoGuestCart
    /\ serverCart = EmptyServerCart
    /\ isLoggedIn = [t \in Tabs |-> TRUE]
    /\ items = [t \in Tabs |-> <<>>]
    /\ orders = <<>>
    /\ selectedAddressId = NoAddress
    /\ processing = FALSE
    /\ orderInFlight = FALSE
    /\ paymentJustCompleted = FALSE
    /\ orderSuccess = 0
    /\ toast = "none"
    /\ flows = <<>>
    /\ rejected = FALSE
    /\ createOrderCalls = <<>>
    /\ createPaymentCalls = <<>>
    /\ verifyPaymentCalls = <<>>
    /\ clearCartCalls = <<>>

SpecApi == InitApi /\ [][ApiStep]_vars

\* C5: for each original request the response interceptor makes at most
\* one token-refresh call and re-sends the request at most once, also when
\* the re-sent request is answered 401 again.
C5_OneRefreshAndRetry ==
    \A r \in 1..MaxRequests :
        /\ requests[r].refreshes <= 1
        /\ requests[r].sends <= 2

C5_Witness ==
    \E r \in 1..MaxRequests :
        /\ requests[r].pc = "rejected"
        /\ requests[r].sends = 2
        /\ requests[r].refreshes = 1
        /\ requests[r].lastStatus = 401
        /\ requests[r]._retry

\* A step in which the refresh call made for request r fails: the
\* interceptor leaves its await without a new access token to send the
\* request with.
RefreshFails(r) ==
    /\ requests[r].pc = "refreshing"
    /\ requests'[r] # requests[r]
    /\ ~(requests'[r].pc = "sent" /\ access_token')

\* C12: when the refresh call fails both tokens are removed from local
\* storage, the browser is sent to /login and the original request is
\* rejected; a rejected request is never sent again.
C12_RefreshFailureGivesUp ==
    /\ [][\A r \in 1..MaxRequests :
             RefreshFails(r) =>
                /\ ~access_token'
                /\ ~refresh_token'
                /\ redirected'
                /\ requests'[r].pc = "rejected"
                /\ requests'[r].sends = requests[r].sends]_vars
    /\ [][\A r \in 1..MaxRequests :
             requests[r].pc = "rejected" => requests'[r] = requests[r]]_vars

C12_Witness ==
    \E r \in 1..MaxRequests :
        /\ requests[r].pc = "rejected"
        /\ requests[r].refreshes = 1
        /\ requests[r].sends = 1
        /\ requests[r].lastStatus = 401
        /\ redirected
        /\ ~access_token /\ ~refresh_token

\* ========================================================== AuthProvider
\* The request of the API client followed next to the auth handlers.
AuthRequest == 1

\* Two logged-in tabs: login, logout through AuthContext and through the
\* useLogout hook, the storage events between the tabs, the cart fetch of
\* the [isLoggedIn] effect, the queries of the page and one request that
\* goes through the response interceptor of tab 1.
AuthStep ==
    \/ \E t \in Tabs :
          \/ Login(t)
          \/ Logout(t)
          \/ UseLogoutMutate(t)
          \/ HandleStorage(t)
          \/ QueryFetched(t)
    \/ \E t \in Tabs, k \in 1..MaxRuns, ok \in BOOLEAN :
          \/ LogoutReturns(t, k, ok)
          \/ UseLogoutReturns(t, k, ok)
          \/ GetCartReturns(t, k, ok)
    \/ SendRequest(AuthRequest)
    \/ \E status \in HttpStatuses : Respond(AuthRequest, status)
    \/ \E ok \in BOOLEAN, rotated \in BOOLEAN :
          RefreshReturns(AuthRequest, ok, rotated)

SpecAuth == InitApi /\ [][AuthStep]_vars

\* A step in which the AuthContext.logout run in slot k of tab t completes.
LogoutCompletes(t, k) ==
    /\ runs[t][k].pc = "logout"
    /\ runs'[t][k].pc # "logout"

\* C11: when AuthContext.logout completes, after a successful or a failed
\* server call, access_token and refresh_token are absent, isLoggedIn is
\* false and the query cache is empty.
C11_LogoutClearsSession ==
    [][\A t \in Tabs, k \in 1..MaxRuns :
          LogoutCompletes(t, k) =>
              /\ ~access_token'
              /\ ~refresh_token'
              /\ ~isLoggedIn'[t]
              /\ ~queryCache'[t]
              /\ logoutCalls'[runs[t][k].mergeIx].state \in {"ok", "failed"}
       ]_vars

C11_Witness ==
    /\ \E i \in 1..Len(logoutCalls) : logoutCalls[i].state = "ok"
    /\ \E i \in 1..Len(logoutCalls) : logoutCalls[i].state = "failed"
    /\ \A t \in Tabs : \A k \in 1..MaxRuns : runs[t][k].pc # "useLogout"
    /\ \A i \in 1..Len(logoutCalls) : logoutCalls[i].state # "pending"
    /\ ~access_token /\ ~refresh_token
    /\ \A t \in Tabs : ~isLoggedIn[t] /\ ~queryCache[t]

\* No handler of tab t is running or about to run: no activation awaits an
\* answer, no storage event is pending, no request of the tab is in flight
\* and the page is not being replaced.
Quiescent(t) ==
    /\ \A k \in 1..MaxRuns : runs[t][k].pc = "idle"
    /\ storageEvents[t] = <<>>
    /\ t = ApiTab =>
          /\ ~redirected
          /\ \A r \in 1..MaxRequests :
                requests[r].pc \notin {"sent", "refreshing"}

\* C20: in every quiescent state of a tab isLoggedIn is true exactly when
\* access_token is present in local storage.
C20_LoggedInIffToken ==
    \A t \in Tabs : Quiescent(t) => (isLoggedIn[t] <=> access_token)

\* =================================================== mobile ApiService
\* The state the mobile API client does not touch.
nonMobileVars == <<cartVars, access_token, refresh_token, mergeCalls,
                   storageEvents, loading, runs, lastCall, authChanges,
                   guestWrites, requests, redirected, queryCache,
                   logoutCalls, screenVars, checkoutVars>>

\* A call through _dio: the request goes out.
MobileSend(r) ==
    /\ mobileRequests[r].pc = "new"
    /\ mobileRequests' = [mobileRequests EXCEPT ![r].pc = "sent",
                                                ![r].sends = 1]
    /\ UNCHANGED <<secureStorage, nonMobileVars>>

\* handler.next(error): the error leaves the interceptor.  The caller gets
\* it when it is the error of the original transmission; for a nested
\* _dio.fetch the await inside onError throws, and the activation that
\* made it ends without having called its handler, or passes the error on.
ErrorOutcomes(req) ==
    IF req.depth = 0 THEN {"rejected"} ELSE {"rejected", "hung"}

\* onError up to its first network call, or the answer of a request that
\* succeeded.
MobileRespond(r, status) ==
    /\ mobileRequests[r].pc = "sent"
    /\ IF status = 200
       THEN mobileRequests' = [mobileRequests EXCEPT ![r].pc = "resolved"]
       ELSE IF status = 401 /\ secureStorage.refresh_token
       THEN mobileRequests' = [mobileRequests EXCEPT ![r].pc = "refreshing",
                                                    ![r].refreshes = @ + 1]
       ELSE \E outcome \in ErrorOutcomes(mobileRequests[r]) :
               mobileRequests' = [mobileRequests EXCEPT ![r].pc = outcome]
    /\ UNCHANGED <<secureStorage, nonMobileVars>>

\* _refreshToken answered.  On success both tokens are written and the
\* request is fetched again through _dio, inside the onError activation;
\* on failure the error is passed on.
MobileRefreshReturns(r, ok) ==
    /\ mobileRequests[r].pc = "refreshing"
    /\ IF ok
       THEN /\ mobileRequests[r].sends < MaxSends
            /\ secureStorage' = [access_token |-> TRUE,
                                 refresh_token |-> TRUE]
            /\ mobileRequests' = [mobileRequests EXCEPT ![r].pc = "sent",
                                                        ![r].sends = @ + 1,
                                                        ![r].depth = @ + 1]
       ELSE /\ \E outcome \in ErrorOutcomes(mobileRequests[r]) :
                  mobileRequests' = [mobileRequests EXCEPT ![r].pc = outcome]
            /\ UNCHANGED secureStorage
    /\ UNCHANGED nonMobileVars

MobileApiStep ==
    \/ \E r \in 1..MaxRequests : MobileSend(r)
    \/ \E r \in 1..MaxRequests, status \in HttpStatuses :
          MobileRespond(r, status)
    \/ \E r \in 1..MaxRequests, ok \in BOOLEAN : MobileRefreshReturns(r, ok)

\* The app after a login (both tokens stored) or without a session.
InitMobileApi ==
    /\ access_token = FALSE
    /\ refresh_token = FALSE
    /\ mergeCalls = <<>>
    /\ storageEvents = [t \in Tabs |-> <<>>]
    /\ loading = [t \in Tabs |-> FALSE]
    /\ runs = [t \in Tabs |-> [k \in 1..MaxRuns |-> IdleRun]]
    /\ lastCall = NoCall
    /\ authChanges = 0
    /\ guestWrites = 0
    /\ requests = [r \in 1..MaxRequests |-> NewRequest]
    /\ redirected = FALSE
    /\ queryCache = [t \in Tabs |-> FALSE]
    /\ logoutCalls = <<>>
    /\ secureStorage \in {NoSecureStorage,
                          [access_token |-> TRUE, refresh_token |-> TRUE]}
    /\ mobileRequests = [r \in 1..MaxRequests |-> NewMobileRequest]
    /\ NoAccountPage
    /\ NoMobileApp
    /\ NoCheckoutPage
    /\ guest_cart = NoGuestCart
    /\ serverCart = EmptyServerCart
    /\ isLoggedIn = [t \in Tabs |-> FALSE]
    /\ items = [t \in Tabs |-> <<>>]
    /\ orders = <<>>
    /\ selectedAddressId = NoAddress
    /\ processing = FALSE
    /\ orderInFlight = FALSE
    /\ paymentJustCompleted = FALSE
    /\ orderSuccess = 0
    /\ toast = "none"
    /\ flows = <<>>
    /\ rejected = FALSE
    /\ createOrderCalls = <<>>
    /\ createPaymentCalls = <<>>
    /\ verifyPaymentCalls = <<>>
    /\ clearCartCalls = <<>>

SpecMobileApi == InitMobileApi /\ [][MobileApiStep]_vars

\* C13: for each original request the mobile client makes at most one
\* refresh call and sends the request again at most once, also when the
\* request sent again is answered 401.
C13_MobileOneRefreshAndRetry ==
    \A r \in 1..MaxRequests :
        /\ mobileRequests[r].refreshes <= 1
        /\ mobileRequests[r].sends <= 2

\* ================================================= mobile router and auth
MaxStack == 2            \* pages on the navigation stack
MaxAuthCalls == 2        \* calls of sendOtp, verifyOtp and logout

nonRouterVars == <<cartVars, access_token, refresh_token, mergeCalls,
                   storageEvents, loading, runs, lastCall, authChanges,
                   guestWrites, requests, redirected, queryCache,
                   logoutCalls, mobileRequests, accountVars, otpVars,
                   checkoutVars>>

\* state.copyWith(...): error is null unless it is passed.
CopyWith(state) == [state EXCEPT !.error = FALSE, !.isConst = FALSE]

\* `state = next` in AuthNotifier.  Unless next is identical to the state it
\* replaces, routerProvider, which watches authStateProvider, is computed
\* again: a new GoRouter that captured the new state.
SetState(next) ==
    /\ authState' = next
    /\ router' = IF next.isConst /\ authState.isConst THEN router
                 ELSE NewRouter(next)

Top == router.stack[Len(router.stack)]

\* context.go(loc), the bottom navigation bar, a deep link
Go(loc) ==
    /\ router' = [router EXCEPT
                     !.stack = <<Outcome(router.isLoggedIn, loc)>>]
    /\ UNCHANGED <<authState, authNotifier, secureStorage, nonRouterVars>>

\* context.push(loc)
Push(loc) ==
    /\ Len(router.stack) < MaxStack
    /\ router' = [router EXCEPT
                     !.stack = Append(@, Outcome(router.isLoggedIn, loc))]
    /\ UNCHANGED <<authState, authNotifier, secureStorage, nonRouterVars>>

\* context.pop(), the back button
Pop ==
    /\ Len(router.stack) > 1
    /\ router' = [router EXCEPT
                     !.stack = SubSeq(@, 1, Len(@) - 1)]
    /\ UNCHANGED <<authState, authNotifier, secureStorage, nonRouterVars>>

\* _checkAuth after its read of access_token.
CheckAuthReads ==
    /\ authNotifier.checkAuth = "reading"
    /\ IF secureStorage.access_token
       THEN /\ SetState([CopyWith(authState) EXCEPT !.isAuthenticated = TRUE])
            /\ authNotifier' = [authNotifier EXCEPT !.checkAuth = "done",
                                                    !.loadProfile = @ + 1]
       ELSE /\ authNotifier' = [authNotifier EXCEPT !.checkAuth = "done"]
            /\ UNCHANGED <<authState, router>>
    /\ UNCHANGED <<secureStorage, nonRouterVars>>

\* LoginScreen._sendOtp: sendOtp up to its await.
SendOtp ==
    /\ Top = AuthLogin
    /\ authNotifier.calls < MaxAuthCalls
    /\ SetState([CopyWith(authState) EXCEPT !.isLoading = TRUE])
    /\ authNotifier' = [authNotifier EXCEPT !.sendOtp = @ + 1,
                                            !.calls = @ + 1]
    /\ UNCHANGED <<secureStorage, nonRouterVars>>

\* apiService.sendOtp answered.  The LoginScreen that made the call went
\* with the router that showed it, so its `if (mounted)` branches are not
\* taken.
SendOtpReturns(ok) ==
    /\ authNotifier.sendOtp > 0
    /\ SetState([CopyWith(authState) EXCEPT !.isLoading = FALSE,
                                            !.error = ~ok])
    /\ authNotifier' = [authNotifier EXCEPT !.sendOtp = @ - 1]
    /\ UNCHANGED <<secureStorage, nonRouterVars>>

\* OtpScreen._verifyOtp: verifyOtp up to its await.
VerifyOtp ==
    /\ Top = AuthOtp
    /\ authNotifier.calls < MaxAuthCalls
    /\ SetState([CopyWith(authState) EXCEPT !.isLoading = TRUE])
    /\ authNotifier' = [authNotifier EXCEPT !.verifyOtp = @ + 1,
                                            !.calls = @ + 1]
    /\ UNCHANGED <<secureStorage, nonRouterVars>>

\* apiService.verifyOtp answered: the write of access_token is awaited, or
\* the catch block runs.
VerifyOtpReturns(ok) ==
    /\ authNotifier.verifyOtp > 0
    /\ IF ok
       THEN /\ authNotifier' = [authNotifier EXCEPT !.verifyOtp = @ - 1,
                                                    !.writeAccess = @ + 1]
            /\ UNCHANGED <<authState, router>>
       ELSE /\ authNotifier' = [authNotifier EXCEPT !.verifyOtp = @ - 1]
            /\ SetState([CopyWith(authState) EXCEPT !.isLoading = FALSE,
                                                    !.error = TRUE])
    /\ UNCHANGED <<secureStorage, nonRouterVars>>

\* access_token written; the write of refresh_token is awaited.
AccessTokenWritten ==
    /\ authNotifier.writeAccess > 0
    /\ secureStorage' = [secureStorage EXCEPT !.access_token = TRUE]
    /\ authNotifier' = [authNotifier EXCEPT !.writeAccess = @ - 1,
                                            !.writeRefresh = @ + 1]
    /\ UNCHANGED <<authState, router, nonRouterVars>>

\* refresh_token written: the state becomes authenticated and loadProfile
\* is awaited.
RefreshTokenWritten ==
    /\ authNotifier.writeRefresh > 0
    /\ secureStorage' = [secureStorage EXCEPT !.refresh_token = TRUE]
    /\ SetState([CopyWith(authState) EXCEPT !.isAuthenticated = TRUE,
                                            !.isLoading = FALSE])
    /\ authNotifier' = [authNotifier EXCEPT !.writeRefresh = @ - 1,
                                            !.loadProfile = @ + 1]
    /\ UNCHANGED nonRouterVars

\* apiService.getProfile answered in loadProfile.
LoadProfileReturns(ok) ==
    /\ authNotifier.loadProfile > 0
    /\ authNotifier' = [authNotifier EXCEPT !.loadProfile = @ - 1]
    /\ IF ok
       THEN SetState([CopyWith(authState) EXCEPT !.user = TRUE])
       ELSE UNCHANGED <<authState, router>>
    /\ UNCHANGED <<secureStorage, nonRouterVars>>

\* The Logout button of the profile screen: logout() up to its await, then
\* context.go('/auth/login').
LogoutTapped ==
    /\ Top = Profile
    /\ authNotifier.calls < MaxAuthCalls
    /\ authNotifier' = [authNotifier EXCEPT !.logout = @ + 1,
                                            !.calls = @ + 1]
    /\ router' = [router EXCEPT
                     !.stack = <<Outcome(router.isLoggedIn, AuthLogin)>>]
    /\ UNCHANGED <<authState, secureStorage, nonRouterVars>>

\* apiService.logout answered, with or without an error.
LogoutApiReturns ==
    /\ authNotifier.logout > 0
    /\ authNotifier' = [authNotifier EXCEPT !.logout = @ - 1,
                                            !.deleteAccess = @ + 1]
    /\ UNCHANGED <<authState, router, secureStorage, nonRouterVars>>

AccessTokenDeleted ==
    /\ authNotifier.deleteAccess > 0
    /\ secureStorage' = [secureStorage EXCEPT !.access_token = FALSE]
    /\ authNotifier' = [authNotifier EXCEPT !.deleteAccess = @ - 1,
                                            !.deleteRefresh = @ + 1]
    /\ UNCHANGED <<authState, router, nonRouterVars>>

\* refresh_token deleted; state = const AuthState()
RefreshTokenDeleted ==
    /\ authNotifier.deleteRefresh > 0
    /\ secureStorage' = [secureStorage EXCEPT !.refresh_token = FALSE]
    /\ authNotifier' = [authNotifier EXCEPT !.deleteRefresh = @ - 1]
    /\ SetState(NoAuthState)
    /\ UNCHANGED nonRouterVars

RouterStep ==
    \/ \E loc \in Routes : Go(loc) \/ Push(loc)
    \/ Pop
    \/ CheckAuthReads
    \/ SendOtp
    \/ VerifyOtp
    \/ \E ok \in BOOLEAN :
          \/ SendOtpReturns(ok)
          \/ VerifyOtpReturns(ok)
          \/ LoadProfileReturns(ok)
    \/ AccessTokenWritten
    \/ RefreshTokenWritten
    \/ LogoutTapped
    \/ LogoutApiReturns
    \/ AccessTokenDeleted
    \/ RefreshTokenDeleted

\* The app starts: the AuthNotifier is constructed and reads access_token.
InitRouter ==
    /\ access_token = FALSE
    /\ refresh_token = FALSE
    /\ mergeCalls = <<>>
    /\ storageEvents = [t \in Tabs |-> <<>>]
    /\ loading = [t \in Tabs |-> FALSE]
    /\ runs = [t \in Tabs |-> [k \in 1..MaxRuns |-> IdleRun]]
    /\ lastCall = NoCall
    /\ authChanges = 0
    /\ guestWrites = 0
    /\ requests = [r \in 1..MaxRequests |-> NewRequest]
    /\ redirected = FALSE
    /\ queryCache = [t \in Tabs |-> FALSE]
    /\ logoutCalls = <<>>
    /\ secureStorage \in {NoSecureStorage,
                          [access_token |-> TRUE, refresh_token |-> TRUE]}
    /\ mobileRequests = [r \in 1..MaxRequests |-> NewMobileRequest]
    /\ NoAccountPage
    /\ NoCheckoutPage
    /\ NoOtpScreen
    /\ authState = NoAuthState
    /\ authNotifier = [IdleNotifier EXCEPT !.checkAuth = "reading"]
    /\ router = NewRouter(authState)
    /\ guest_cart = NoGuestCart
    /\ serverCart = EmptyServerCart
    /\ isLoggedIn = [t \in Tabs |-> FALSE]
    /\ items = [t \in Tabs |-> <<>>]
    /\ orders = <<>>
    /\ selectedAddressId = NoAddress
    /\ processing = FALSE
    /\ orderInFlight = FALSE
    /\ paymentJustCompleted = FALSE
    /\ orderSuccess = 0
    /\ toast = "none"
    /\ flows = <<>>
    /\ rejected = FALSE
    /\ createOrderCalls = <<>>
    /\ createPaymentCalls = <<>>
    /\ verifyPaymentCalls = <<>>
    /\ clearCartCalls = <<>>


SpecRouter == InitRouter /\ [][RouterStep]_vars

MaxOtpCalls == 2         \* verifyOtp calls awaited at the same time

nonOtpVars == <<cartVars, access_token, refresh_token, mergeCalls,
                storageEvents, loading, runs, lastCall, authChanges,
                guestWrites, requests, redirected, queryCache, logoutCalls,
                secureStorage, mobileRequests, accountVars, routerVars,
                checkoutVars>>

\* onPressed of the Resend button is _resendOtp, not null.
ResendAvailable == mounted /\ _canResend

\* One turn of the Future.doWhile loop of _startResendTimer: the delay has
\* passed.  The loop goes on while the callback returns true.
CountdownTick ==
    /\ countdownLoops > 0
    /\ IF ~mounted
       THEN /\ countdownLoops' = countdownLoops - 1
            /\ UNCHANGED <<_resendSeconds, _canResend>>
       ELSE /\ IF _resendSeconds > 0
               THEN /\ _resendSeconds' = _resendSeconds - 1
                    /\ UNCHANGED _canResend
               ELSE /\ _canResend' = TRUE
                    /\ UNCHANGED _resendSeconds
            /\ countdownLoops' = IF _resendSeconds' > 0 THEN countdownLoops
                                 ELSE countdownLoops - 1
    /\ UNCHANGED <<mounted, _isLoading, otpCalls, nonOtpVars>>

\* _verifyOtp up to its await, from the Verify button or from onCompleted
\* of the input (which does not look at _isLoading).
OtpVerify ==
    /\ mounted
    /\ otpCalls.verifyOtp < MaxOtpCalls
    /\ _isLoading' = TRUE
    /\ otpCalls' = [otpCalls EXCEPT !.verifyOtp = @ + 1]
    /\ UNCHANGED <<mounted, _resendSeconds, _canResend, countdownLoops,
                   nonOtpVars>>

\* verifyOtp answered: context.go('/') takes the screen away on success;
\* the finally block.
OtpVerifyAnswered(success) ==
    /\ otpCalls.verifyOtp > 0
    /\ otpCalls' = [otpCalls EXCEPT !.verifyOtp = @ - 1]
    /\ mounted' = (mounted /\ ~success)
    /\ _isLoading' = IF mounted THEN FALSE ELSE _isLoading
    /\ UNCHANGED <<_resendSeconds, _canResend, countdownLoops, nonOtpVars>>

\* _resendOtp up to its await.
ResendOtp ==
    /\ ResendAvailable
    /\ _canResend' = FALSE
    /\ _resendSeconds' = ResendDelay
    /\ otpCalls' = [otpCalls EXCEPT !.sendOtp = @ + 1]
    /\ UNCHANGED <<mounted, _isLoading, countdownLoops, nonOtpVars>>

\* sendOtp answered in _resendOtp: a new countdown loop, or the catch
\* block.
ResendAnswered(ok) ==
    /\ otpCalls.sendOtp > 0
    /\ otpCalls' = [otpCalls EXCEPT !.sendOtp = @ - 1]
    /\ countdownLoops' = IF ok THEN countdownLoops + 1 ELSE countdownLoops
    /\ _canResend' = IF ~ok /\ mounted THEN TRUE ELSE _canResend
    /\ UNCHANGED <<mounted, _resendSeconds, _isLoading, nonOtpVars>>

\* The screen is taken off the stack: the back button's context.pop().
OtpDispose ==
    /\ mounted
    /\ mounted' = FALSE
    /\ UNCHANGED <<_resendSeconds, _canResend, _isLoading, countdownLoops,
                   otpCalls, nonOtpVars>>

\* ResendOtp and ResendAnswered are no steps of the screen: the guard of
\* _resendOtp never holds (C30).
OtpStep ==
    \/ CountdownTick
    \/ OtpVerify
    \/ \E success \in BOOLEAN : OtpVerifyAnswered(success)
    \/ OtpDispose

\* The screen right after initState.
InitOtp ==
    /\ access_token = FALSE
    /\ refresh_token = FALSE
    /\ mergeCalls = <<>>
    /\ storageEvents = [t \in Tabs |-> <<>>]
    /\ loading = [t \in Tabs |-> FALSE]
    /\ runs = [t \in Tabs |-> [k \in 1..MaxRuns |-> IdleRun]]
    /\ lastCall = NoCall
    /\ authChanges = 0
    /\ guestWrites = 0
    /\ requests = [r \in 1..MaxRequests |-> NewRequest]
    /\ redirected = FALSE
    /\ queryCache = [t \in Tabs |-> FALSE]
    /\ logoutCalls = <<>>
    /\ secureStorage = NoSecureStorage
    /\ mobileRequests = [r \in 1..MaxRequests |-> NewMobileRequest]
    /\ NoAccountPage
    /\ NoCheckoutPage
    /\ authState = NoAuthState
    /\ authNotifier = IdleNotifier
    /\ router = NewRouter(NoAuthState)
    /\ mounted = TRUE
    /\ _resendSeconds = ResendDelay
    /\ _canResend = FALSE
    /\ _isLoading = FALSE
    /\ countdownLoops = 1
    /\ otpCalls = [verifyOtp |-> 0, sendOtp |-> 0]
    /\ guest_cart = NoGuestCart
    /\ serverCart = EmptyServerCart
    /\ isLoggedIn = [t \in Tabs |-> FALSE]
    /\ items = [t \in Tabs |-> <<>>]
    /\ orders = <<>>
    /\ selectedAddressId = NoAddress
    /\ processing = FALSE
    /\ orderInFlight = FALSE
    /\ paymentJustCompleted = FALSE
    /\ orderSuccess = 0
    /\ toast = "none"
    /\ flows = <<>>
    /\ rejected = FALSE
    /\ createOrderCalls = <<>>
    /\ createPaymentCalls = <<>>
    /\ verifyPaymentCalls = <<>>
    /\ clearCartCalls = <<>>


SpecOtp == InitOtp /\ [][OtpStep]_vars

\* The timer of Future.delayed fires and a call that is awaited is
\* answered.
FairSpecOtp ==
    /\ SpecOtp
    /\ WF_vars(CountdownTick)
    /\ WF_vars(\E success \in BOOLEAN : OtpVerifyAnswered(success))

\* C30: resend is never available while the countdown is above zero, at
\* most one countdown loop runs at a time, and unless the screen is taken
\* away the countdown reaches zero and Resend OTP becomes available.
C30_ResendBecomesAvailable ==
    /\ [](ResendAvailable => _resendSeconds = 0)
    /\ [](countdownLoops <= 1)
    /\ <>(~mounted \/ (_resendSeconds = 0 /\ ResendAvailable))

====
